---- MODULE Spec2Model ----
(***************************************************************************)
(* Kasstyle: invoice cache (src/services/storage.ts), invoice form         *)
(* (src/components/InvoiceForm.tsx) and the spreadsheet web-hook           *)
(* (src/unnamed/part_008, v4.3).                                           *)
(*                                                                         *)
(* Money is an integer number of mills (1/1000 USD), so that toFixed(2)    *)
(* is a real rounding (to a multiple of 10), weights are whole kg or lb,   *)
(* timestamps are ticks of the logical clock `now`.  Binary floating point *)
(* error is outside the model.                                             *)
(***************************************************************************)
EXTENDS Integers, Sequences, FiniteSets, TLC

VARIABLES
  clients,      \* _clients
  invoices,     \* _invoices
  expenses,     \* _expenses
  settings,     \* _settings (the object's content)
  defaults,     \* DEFAULT_SETTINGS (a const binding to a mutable object)
  aliased,      \* TRUE when _settings and DEFAULT_SETTINGS are the same object
  listeners,    \* registered subscribers, in registration order
  pushes,       \* POST requests in flight (their bodies)
  initFlight,   \* GET requests in flight
  remote,       \* the spreadsheet behind the web-hook
  nextId,       \* number of ids handed out by generateId
  now,          \* logical clock, one tick per handler
  last,         \* the handler that ran last and how its promise stands
  log,          \* what the last handler did, in statement order
  form,         \* state of the InvoiceForm component
  sheet,        \* the spreadsheet at cell level, and the web-hook's version
  calc,         \* a value handed to a numeric helper, and what came back
  hook          \* the web-hook's script lock and the requests it is serving

vars == <<clients, invoices, expenses, settings, defaults, aliased, listeners,
          pushes, initFlight, remote, nextId, now, last, log, form,
          sheet, calc, hook>>

cacheVars == <<clients, invoices, expenses, settings, defaults, aliased>>

----------------------------------------------------------------------------
(* Bounds *)

MaxOps == 3        \* handlers run in one behaviour of Spec
MaxFormOps == 5    \* handlers run in one behaviour of FormSpec
MaxInFlight == 2   \* requests in flight at once

----------------------------------------------------------------------------
(* InvoiceStatus *)

DRAFT == "Borrador"
PENDING == "Pendiente"
PARTIAL == "Abonado"
PAID == "Pagado"
DELIVERED == "Entregado"

InvoiceStatus == {DRAFT, PENDING, PARTIAL, PAID, DELIVERED}

----------------------------------------------------------------------------
(* Arithmetic helpers *)

\* Round2Parts cutting the digits after the second
Round2PartsDown(p) == 10 * (p.int \div 10)
\* A number of mills is kept as its floor `int` and whether it is that
\* integer exactly.  parseFloat(x.toFixed(2)): the nearest multiple of 10
\* mills, halves away from zero; only the floor of |x| decides it.
Round2Parts(p) ==
  IF p.int >= 0 THEN 10 * ((p.int + 5) \div 10)
  ELSE LET m == IF p.exact THEN -p.int ELSE -p.int - 1
       IN  -10 * ((m + 5) \div 10)

\* parseFloat(x.toFixed(2)) for x a whole number of mills
Round2(x) == Round2Parts([int |-> x, exact |-> TRUE])

\* safeParseFloat on the `typeof val === 'number'` branch
safeParseFloat(val) == val

RECURSIVE SumSeq(_)
\* sum of a sequence of numbers
SumSeq(s) == IF s = <<>> THEN 0 ELSE Head(s) + SumSeq(Tail(s))

\* items.reduce((acc, item) => acc + item.originalPrice * item.quantity, 0)
SumCost(items) == SumSeq([k \in 1..Len(items) |-> items[k].originalPrice * items[k].quantity])
\* items.reduce((acc, item) => acc + item.finalPrice * item.quantity, 0)
SumSale(items) == SumSeq([k \in 1..Len(items) |-> items[k].finalPrice * items[k].quantity])
\* items.reduce((acc, item) => acc + item.commission * item.quantity, 0)
SumCommission(items) ==
  SumSeq([k \in 1..Len(items) |-> items[k].commission * items[k].quantity])

\* findIndex: first index whose id matches, 0 when none (JS -1)
RECURSIVE FindFrom(_, _, _)
FindFrom(s, id, k) ==
  IF k > Len(s) THEN 0
  ELSE IF s[k].id = id THEN k
  ELSE FindFrom(s, id, k + 1)

findIndex(s, id) == FindFrom(s, id, 1)

\* array.filter(x => x.id !== id)
RECURSIVE filterOut(_, _)
filterOut(s, id) ==
  IF s = <<>> THEN <<>>
  ELSE IF Head(s).id = id THEN filterOut(Tail(s), id)
  ELSE <<Head(s)>> \o filterOut(Tail(s), id)

\* generateId handing out the same id every time
generateIdFixed(n) == "g1"
\* generateId(): the n-th id handed out
generateId(n) == "g" \o ToString(n)

----------------------------------------------------------------------------
(* Remote Document Service, at its GET/POST boundary (Apps Script v4.3) *)

CLIENT_HEADERS == <<"id", "name", "phone", "email", "address", "notes">>
INVOICE_HEADERS == <<"id", "clientId", "createdAt", "updatedAt", "status",
                     "exchangeRate", "logisticsCost", "amountPaid",
                     "grandTotalUsd", "items">>
EXPENSE_HEADERS == <<"id", "description", "amount", "category", "date">>

Range(s) == {s[k] : k \in 1..Len(s)}

\* headers.map(header => obj[header] ?? ''): one sheet row, keyed by header
RowOf(obj, headers) ==
  [h \in Range(headers) |-> IF h \in DOMAIN obj THEN obj[h] ELSE ""]

\* writeSheetRows: the data rows of the sheet become exactly dataArray
writeSheetRows(headers, dataArray) ==
  [k \in 1..Len(dataArray) |-> RowOf(dataArray[k], headers)]

\* JSON.stringify(inv.items || []) as the text of one cell
StringifyItems(items) == [text |-> "json", value |-> items]

\* readSheetRows on the items column: JSON.parse of a cell that holds an
\* array, [] for any other cell
ParseItems(cell) == IF cell.text = "json" THEN cell.value ELSE <<>>

\* safeNumber on the `typeof val === 'number'` branch
safeNumber(val) == val

\* doPost's processedInvoices
ProcessedInvoice(inv) ==
  [items         |-> StringifyItems(inv.items),
   logisticsCost |-> safeNumber(inv.logisticsCost),
   amountPaid    |-> safeNumber(inv.amountPaid),
   grandTotalUsd |-> safeNumber(inv.grandTotalUsd),
   exchangeRate  |-> safeNumber(inv.exchangeRate)] @@ inv

\* doPost's processedExpenses (the client has already filled in the date)
ProcessedExpense(exp) == [amount |-> safeNumber(exp.amount)] @@ exp

\* readSettingsSheet: the rows of the Settings sheet over the defaults
readSettingsSheet(rows) == rows @@ [exchangeRate |-> 40500, pricePerKg |-> 15430]

\* doPost: every collection the body carries replaces its sheet
doPost(sheets, body) ==
  [Clients  |-> IF "clients" \in DOMAIN body
                THEN writeSheetRows(CLIENT_HEADERS, body.clients)
                ELSE sheets.Clients,
   Invoices |-> IF "invoices" \in DOMAIN body
                THEN writeSheetRows(INVOICE_HEADERS,
                       [k \in 1..Len(body.invoices) |->
                          ProcessedInvoice(body.invoices[k])])
                ELSE sheets.Invoices,
   Expenses |-> IF "expenses" \in DOMAIN body
                THEN writeSheetRows(EXPENSE_HEADERS,
                       [k \in 1..Len(body.expenses) |->
                          ProcessedExpense(body.expenses[k])])
                ELSE sheets.Expenses,
   Settings |-> IF "settings" \in DOMAIN body
                THEN body.settings
                ELSE sheets.Settings]

\* doGet: the four sheets as one JSON dataset
doGet(sheets) ==
  [clients  |-> sheets.Clients,
   invoices |-> [k \in 1..Len(sheets.Invoices) |->
                   [sheets.Invoices[k] EXCEPT
                      !.items = ParseItems(@),
                      !.logisticsCost = safeNumber(@),
                      !.amountPaid = safeNumber(@),
                      !.grandTotalUsd = safeNumber(@),
                      !.exchangeRate = safeNumber(@)]],
   expenses |-> [k \in 1..Len(sheets.Expenses) |->
                   [sheets.Expenses[k] EXCEPT !.amount = safeNumber(@)]],
   settings |-> readSettingsSheet(sheets.Settings)]

----------------------------------------------------------------------------
(* Local cache store: pure parts *)

\* the body pushToCloud serialises at time t
PayloadOf(cs, is, es, st, t) ==
  [clients  |-> cs,
   invoices |-> is,
   expenses |-> [k \in 1..Len(es) |->
                   [es[k] EXCEPT !.amount = safeParseFloat(@),
                                 !.date = IF @ = 0 THEN t ELSE @]],
   settings |-> st]

\* listeners.forEach(l => l()): the listeners called, when the one at
\* position bad raises (bad = 0: none raises)
Threw(ls, bad) == bad \in 1..Len(ls)

notifyListeners(ls, bad) ==
  [k \in 1..(IF Threw(ls, bad) THEN bad ELSE Len(ls)) |->
     [e |-> "notify", l |-> ls[k]]]
  \o (IF Threw(ls, bad) THEN <<[e |-> "throw", l |-> ls[bad]]>> ELSE <<>>)

\* FinalInvoice with the commissions left out of the grand total
FinalInvoiceNoCommission(invoice, t) ==
  LET items == invoice.items
      logisticsCost == safeParseFloat(invoice.logisticsCost)
      totalProductSale == SumSale(items)
  IN  [logisticsCost    |-> logisticsCost,
       amountPaid       |-> safeParseFloat(invoice.amountPaid),
       updatedAt        |-> t,
       totalProductCost |-> SumCost(items),
       totalProductSale |-> totalProductSale,
       totalCommissions |-> SumCommission(items),
       grandTotalUsd    |-> totalProductSale + logisticsCost]
      @@ invoice

\* totals recomputed by saveInvoice; the caller's totals are overwritten
FinalInvoice(invoice, t) ==
  LET items == invoice.items
      logisticsCost == safeParseFloat(invoice.logisticsCost)
      amountPaid == safeParseFloat(invoice.amountPaid)
      totalProductCost == SumCost(items)
      totalProductSale == SumSale(items)
      totalCommissions == SumCommission(items)
  IN  [logisticsCost    |-> logisticsCost,
       amountPaid       |-> amountPaid,
       updatedAt        |-> t,
       totalProductCost |-> totalProductCost,
       totalProductSale |-> totalProductSale,
       totalCommissions |-> totalCommissions,
       grandTotalUsd    |-> totalProductSale + logisticsCost + totalCommissions]
      @@ invoice

\* NewAmountPaid that zeroes the amount for every status that is not paid
NewAmountPaidZeroing(inv, status) ==
  IF status \in {PAID, DELIVERED} THEN inv.grandTotalUsd ELSE 0

\* the amount updateInvoiceStatus stores with the new status
NewAmountPaid(inv, status) ==
  IF status \in {PAID, DELIVERED} THEN inv.grandTotalUsd
  ELSE IF status = PENDING THEN 0
  ELSE inv.amountPaid

\* getInvoices(): the recomputed view of one cached invoice
ViewOf(inv, st) ==
  LET items == inv.items
      logisticsCost == safeParseFloat(inv.logisticsCost)
      rate == safeParseFloat(inv.exchangeRate)
      totalProductSale == SumSale(items)
      totalCommissions == SumCommission(items)
  IN  [items            |-> items,
       exchangeRate     |-> IF rate # 0 THEN rate
                            ELSE IF st.exchangeRate # 0 THEN st.exchangeRate
                            ELSE 1,
       totalProductCost |-> SumCost(items),
       totalProductSale |-> totalProductSale,
       totalCommissions |-> totalCommissions,
       logisticsCost    |-> logisticsCost,
       grandTotalUsd    |-> totalProductSale + logisticsCost + totalCommissions,
       amountPaid       |-> safeParseFloat(inv.amountPaid),
       status           |-> IF inv.status = "" THEN DRAFT ELSE inv.status]
      @@ inv

getInvoices == [k \in 1..Len(invoices) |-> ViewOf(invoices[k], settings)]

\* what init() assigns from a parsed response
InitClients(data) == IF "clients" \in DOMAIN data THEN data.clients ELSE <<>>
InitInvoices(data) == IF "invoices" \in DOMAIN data THEN data.invoices ELSE <<>>
\* InitExpenses keeping the expenses of the old cache
InitExpensesKept(data) == expenses
InitExpenses(data) ==
  IF "expenses" \in DOMAIN data
  THEN [k \in 1..Len(data.expenses) |->
          [data.expenses[k] EXCEPT !.amount = safeParseFloat(@)]]
  ELSE <<>>
InitSettings(data) == IF "settings" \in DOMAIN data THEN data.settings ELSE defaults

\* 1 / 2.20462 = LbNum / LbDen
LbNum == 50000
LbDen == 110231

\* calculateSuggestedLogistics charging the weight of one unit of each item
calculateSuggestedLogisticsPerUnit(currentItems, priceKg) ==
  LET n == Len(currentItems)
      kgPart == priceKg * SumSeq([k \in 1..n |->
                  IF currentItems[k].weightUnit = "lb" THEN 0
                  ELSE currentItems[k].weight])
      lbNum == priceKg * LbNum * SumSeq([k \in 1..n |->
                  IF currentItems[k].weightUnit = "lb"
                  THEN currentItems[k].weight ELSE 0])
      taxNum == SumSeq([k \in 1..n |->
                  IF currentItems[k].isElectronics
                  THEN (currentItems[k].originalPrice - currentItems[k].taxes
                        - currentItems[k].discounts) * currentItems[k].quantity
                  ELSE 0])
      frac == 5 * (lbNum % LbDen) + LbDen * (taxNum % 5)
      carry == IF frac >= 5 * LbDen THEN 1 ELSE 0
  IN  Round2Parts([int |-> kgPart + (lbNum \div LbDen) + (taxNum \div 5) + carry,
                   exact |-> frac - carry * 5 * LbDen = 0])
\* calculateSuggestedLogistics(currentItems, priceKg).cost, for weights that
\* are whole kg or lb: weightCost = kgPart + lbNum/LbDen and
\* electronicsTax = taxNum/5 are added exactly, then rounded
calculateSuggestedLogistics(currentItems, priceKg) ==
  LET n == Len(currentItems)
      \* weight of an item entered in kg, times its quantity
      ItemKg(i) == IF i.weightUnit = "lb" THEN 0 ELSE i.weight * i.quantity
      \* weight in pounds of an item entered in lb, times its quantity
      ItemLb(i) == IF i.weightUnit = "lb" THEN i.weight * i.quantity ELSE 0
      \* five times the electronics tax: 20% of (cost - tax - discount)
      ItemTaxBase(i) == IF i.isElectronics
                        THEN (i.originalPrice - i.taxes - i.discounts) * i.quantity
                        ELSE 0
      kgPart == priceKg * SumSeq([k \in 1..n |-> ItemKg(currentItems[k])])
      lbNum == priceKg * LbNum * SumSeq([k \in 1..n |-> ItemLb(currentItems[k])])
      taxNum == SumSeq([k \in 1..n |-> ItemTaxBase(currentItems[k])])
      frac == 5 * (lbNum % LbDen) + LbDen * (taxNum % 5)
      carry == IF frac >= 5 * LbDen THEN 1 ELSE 0
  IN  Round2Parts([int |-> kgPart + (lbNum \div LbDen) + (taxNum \div 5) + carry,
                   exact |-> frac - carry * 5 * LbDen = 0])

----------------------------------------------------------------------------
(* Inputs *)

DEFAULT_SETTINGS == [exchangeRate |-> 40500, pricePerKg |-> 15430]

ItemA == [id |-> "p1", quantity |-> 2, weight |-> 1, weightUnit |-> "kg",
          originalPrice |-> 10000, taxes |-> 0, discounts |-> 0,
          finalPrice |-> 15000, commission |-> 1000, isElectronics |-> FALSE]

ItemB == [id |-> "p2", quantity |-> 1, weight |-> 500, weightUnit |-> "lb",
          originalPrice |-> 4000, taxes |-> 3990, discounts |-> 0,
          finalPrice |-> 10, commission |-> 1005, isElectronics |-> TRUE]

Listeners == {1, 2}

\* position of the subscriber that raises during one notification; 0: none
BadChoices == {0, 1}

ClientInputs ==
  { [id |-> "",   name |-> "Maria", phone |-> "0414-0000000"],
    [id |-> "c1", name |-> "Maria B", phone |-> "0414-0000000"] }

\* what a caller may pass to saveInvoice: the totals are whatever it likes
InvoiceInputs ==
  { [id |-> id, clientId |-> "c1", createdAt |-> 0, updatedAt |-> 0,
     status |-> v.status, exchangeRate |-> 40500, items |-> v.items,
     logisticsCost |-> v.logisticsCost, amountPaid |-> v.amountPaid,
     totalProductCost |-> 0, totalProductSale |-> 0, totalCommissions |-> 0,
     grandTotalUsd |-> v.grandTotalUsd] :
    id \in {"", "i1"},
    v \in { [status |-> DRAFT, items |-> <<>>, logisticsCost |-> 0,
             amountPaid |-> 0, grandTotalUsd |-> 0],
            [status |-> PARTIAL, items |-> <<ItemA, ItemB>>,
             logisticsCost |-> 30000, amountPaid |-> 5000,
             grandTotalUsd |-> 999000] } }
  \* the invoice the form builds for one item at 15.00 per kg
  \cup { [id |-> "i1", clientId |-> "c1", createdAt |-> 0, updatedAt |-> 0,
          status |-> PENDING, exchangeRate |-> 40500, items |-> <<ItemA>>,
          logisticsCost |-> calculateSuggestedLogistics(<<ItemA>>, 15000),
          amountPaid |-> 0, totalProductCost |-> 0, totalProductSale |-> 0,
          totalCommissions |-> 0, grandTotalUsd |-> 0] }

ExpenseInputs ==
  { [id |-> "",   description |-> "cajas", amount |-> 5000,
     category |-> "Material", date |-> 0],
    [id |-> "e1", description |-> "envio", amount |-> 7500,
     category |-> "Transporte", date |-> 1] }

RateInputs == {36000}
PriceInputs == {15000}

\* an invoice row as the sheet holds it; gt is the grandTotalUsd cell
SheetInvoice(id, status, paid, gt) ==
  [id |-> id, clientId |-> "c1", createdAt |-> 0, updatedAt |-> 0,
   status |-> status, exchangeRate |-> 40500, logisticsCost |-> 30000,
   amountPaid |-> paid, grandTotalUsd |-> gt,
   items |-> StringifyItems(<<ItemA>>)]

EmptySheets == [Clients |-> <<>>, Invoices |-> <<>>, Expenses |-> <<>>,
                Settings |-> <<>>]

\* spreadsheets the web-hook may sit on when the session starts: a new one,
\* one written by an earlier session, and one whose grandTotalUsd cell is
\* blank (read back as 0 by safeNumber) while its items are not
RemoteInits ==
  { EmptySheets,
    [Clients  |-> <<RowOf([id |-> "c1", name |-> "Maria"], CLIENT_HEADERS)>>,
     Invoices |-> <<SheetInvoice("i1", PARTIAL, 5000, 62000),
                    SheetInvoice("i2", PAID, 70000, 62000)>>,
     Expenses |-> <<RowOf([id |-> "e1", amount |-> 7500, date |-> 1],
                          EXPENSE_HEADERS)>>,
     Settings |-> [exchangeRate |-> 36000, pricePerKg |-> 15000]],
    [Clients  |-> <<>>,
     Invoices |-> <<SheetInvoice("i1", PENDING, 0, 0)>>,
     Expenses |-> <<>>,
     Settings |-> <<>>] }

\* how a GET can end
InitOutcomes == {"network", "malformed", "envelope", "data"}

----------------------------------------------------------------------------
(* Initial state: storage.ts lines 27-35, the form not mounted *)

FormClosed == [open |-> FALSE, invoiceId |-> "", status |-> DRAFT,
               clientId |-> "", exchangeRate |-> 0, items |-> <<>>,
               logisticsCost |-> 0, amountPaid |-> 0, date |-> 0,
               configPricePerKg |-> 15430, isLoaded |-> FALSE,
               savingBy |-> 0, ops |-> 0]

Idle == [op |-> "none", id |-> "", idx |-> 0, status |-> "", promise |-> ""]

\* the storage module and the component as they are once loaded
CacheInit ==
  /\ clients = <<>>
  /\ invoices = <<>>
  /\ expenses = <<>>
  /\ settings = DEFAULT_SETTINGS
  /\ defaults = DEFAULT_SETTINGS
  /\ aliased = FALSE
  /\ listeners = <<>>
  /\ pushes = <<>>
  /\ initFlight = 0
  /\ remote \in RemoteInits
  /\ nextId = 0
  /\ now = 0
  /\ last = Idle
  /\ log = <<>>
  /\ form = FormClosed

Init ==
  /\ CacheInit
  /\ sheet = [phase |-> "off"] /\ calc = [phase |-> "off"]
  /\ hook = [phase |-> "off"]

----------------------------------------------------------------------------
(* Local cache store: handlers.  A handler runs to its first await in one   *)
(* step (JavaScript runs it to completion); the settling of the request it  *)
(* awaits is a later step.                                                  *)

CanRun == now < MaxOps /\ Len(pushes) + initFlight < MaxInFlight

\* HandlerTrace with the push dispatched before the subscribers are called
HandlerTracePushFirst(ls, bad) ==
  <<[e |-> "mutate", l |-> 0], [e |-> "push", l |-> 0]>>
  \o notifyListeners(ls, bad)
\* what a mutating handler does, in order: the cache assignment, then
\* notifyListeners(), then the fetch of pushToCloud()
HandlerTrace(ls, bad) ==
  <<[e |-> "mutate", l |-> 0]>>
  \o notifyListeners(ls, bad)
  \o (IF Threw(ls, bad) THEN <<>> ELSE <<[e |-> "push", l |-> 0]>>)

\* `notifyListeners(); await pushToCloud();` after the cache was changed:
\* a raising subscriber ends the handler before pushToCloud is reached
NotifyAndPush(op, id, idx, status, bad) ==
  LET t == now + 1
      threw == Threw(listeners, bad)
  IN  /\ now' = t
      /\ log' = HandlerTrace(listeners, bad)
      /\ pushes' = IF threw THEN pushes
                   ELSE Append(pushes,
                          [by |-> t,
                           body |-> PayloadOf(clients', invoices', expenses',
                                              settings', t)])
      /\ last' = [op |-> op, id |-> id, idx |-> idx, status |-> status,
                  promise |-> IF threw THEN "rejected" ELSE "pending"]
      /\ UNCHANGED <<listeners, initFlight, remote, sheet, calc, hook>>

subscribe(l) ==
  /\ now < MaxOps
  /\ l \notin Range(listeners)
  /\ listeners' = Append(listeners, l)
  /\ now' = now + 1
  /\ last' = [Idle EXCEPT !.op = "subscribe", !.idx = l]
  /\ log' = <<>>
  /\ UNCHANGED <<cacheVars, pushes, initFlight, remote, sheet, calc, hook, nextId, form>>

unsubscribe(l) ==
  /\ now < MaxOps
  /\ l \in Range(listeners)
  /\ listeners' = SelectSeq(listeners, LAMBDA x : x # l)
  /\ now' = now + 1
  /\ last' = [Idle EXCEPT !.op = "unsubscribe", !.idx = l]
  /\ log' = <<>>
  /\ UNCHANGED <<cacheVars, pushes, initFlight, remote, sheet, calc, hook, nextId, form>>

\* saveClient appending also when the id is already there
saveClientAppending(client, bad) ==
  LET index == findIndex(clients, client.id)
      fresh == client.id = ""
  IN  /\ CanRun
      /\ clients' = Append(clients,
                           [client EXCEPT !.id = IF fresh
                                                 THEN generateId(nextId + 1)
                                                 ELSE client.id])
      /\ nextId' = IF fresh THEN nextId + 1 ELSE nextId
      /\ UNCHANGED <<invoices, expenses, settings, defaults, aliased, form>>
      /\ NotifyAndPush("saveClient", client.id,
                       IF index > 0 THEN index ELSE Len(clients) + 1, "", bad)
saveClient(client, bad) ==
  LET index == findIndex(clients, client.id)
      fresh == index = 0 /\ client.id = ""
  IN  /\ CanRun
      /\ clients' = IF index > 0 THEN [clients EXCEPT ![index] = client]
                    ELSE Append(clients,
                           [client EXCEPT !.id = IF fresh
                                                 THEN generateId(nextId + 1)
                                                 ELSE client.id])
      /\ nextId' = IF fresh THEN nextId + 1 ELSE nextId
      /\ UNCHANGED <<invoices, expenses, settings, defaults, aliased, form>>
      /\ NotifyAndPush("saveClient", client.id,
                       IF index > 0 THEN index ELSE Len(clients) + 1, "", bad)

\* deleteClient removing the invoices of the client as well
deleteClientCascading(id, bad) ==
  /\ CanRun
  /\ clients' = filterOut(clients, id)
  /\ invoices' = SelectSeq(invoices, LAMBDA i : i.clientId # id)
  /\ UNCHANGED <<expenses, settings, defaults, aliased, nextId, form>>
  /\ NotifyAndPush("deleteClient", id, 0, "", bad)
deleteClient(id, bad) ==
  /\ CanRun
  /\ clients' = filterOut(clients, id)
  /\ UNCHANGED <<invoices, expenses, settings, defaults, aliased, nextId, form>>
  /\ NotifyAndPush("deleteClient", id, 0, "", bad)

\* StorageService.saveInvoice; what its caller does meanwhile is the caller's
saveInvoice(invoice, bad) ==
  LET index == findIndex(invoices, invoice.id)
      fresh == index = 0 /\ invoice.id = ""
      t == now + 1
      finalInvoice == FinalInvoice(invoice, t)
  IN  /\ CanRun
      /\ invoices' = IF index > 0
                     THEN [invoices EXCEPT ![index] = finalInvoice]
                     ELSE Append(invoices,
                            [finalInvoice EXCEPT
                               !.id = IF fresh THEN generateId(nextId + 1)
                                      ELSE invoice.id,
                               !.createdAt = t])
      /\ nextId' = IF fresh THEN nextId + 1 ELSE nextId
      /\ UNCHANGED <<clients, expenses, settings, defaults, aliased>>
      /\ NotifyAndPush("saveInvoice", invoice.id,
                       IF index > 0 THEN index ELSE Len(invoices) + 1,
                       invoice.status, bad)

\* saveInvoice called with the form left alone
callSaveInvoice(invoice, bad) == saveInvoice(invoice, bad) /\ UNCHANGED form

\* StorageService.updateInvoiceStatus; the caller's own state is the caller's
updateInvoiceStatus(id, status, bad) ==
  LET index == findIndex(invoices, id)
      inv == invoices[index]
  IN  /\ CanRun
      /\ IF index > 0
         THEN /\ invoices' = [invoices EXCEPT ![index] =
                                [inv EXCEPT !.status = status,
                                            !.amountPaid = NewAmountPaid(inv, status),
                                            !.updatedAt = now + 1]]
              /\ UNCHANGED <<clients, expenses, settings, defaults, aliased,
                             nextId>>
              /\ NotifyAndPush("updateInvoiceStatus", id, index, status, bad)
         ELSE /\ now' = now + 1
              /\ log' = <<>>
              /\ last' = [op |-> "updateInvoiceStatus", id |-> id, idx |-> 0,
                          status |-> status, promise |-> "fulfilled"]
              /\ UNCHANGED <<cacheVars, listeners, pushes, initFlight, remote, sheet, calc, hook,
                             nextId>>

\* updateInvoiceStatus called with the form left alone
callUpdateInvoiceStatus(id, status, bad) ==
  updateInvoiceStatus(id, status, bad) /\ UNCHANGED form

deleteInvoice(id, bad) ==
  /\ CanRun
  /\ invoices' = filterOut(invoices, id)
  /\ UNCHANGED <<clients, expenses, settings, defaults, aliased, nextId, form>>
  /\ NotifyAndPush("deleteInvoice", id, 0, "", bad)

saveExpense(expense, bad) ==
  LET index == findIndex(expenses, expense.id)
      fresh == index = 0 /\ expense.id = ""
  IN  /\ CanRun
      /\ expenses' = IF index > 0 THEN [expenses EXCEPT ![index] = expense]
                     ELSE Append(expenses,
                            [expense EXCEPT !.id = IF fresh
                                                   THEN generateId(nextId + 1)
                                                   ELSE expense.id])
      /\ nextId' = IF fresh THEN nextId + 1 ELSE nextId
      /\ UNCHANGED <<clients, invoices, settings, defaults, aliased, form>>
      /\ NotifyAndPush("saveExpense", expense.id,
                       IF index > 0 THEN index ELSE Len(expenses) + 1, "", bad)

deleteExpense(id, bad) ==
  /\ CanRun
  /\ expenses' = filterOut(expenses, id)
  /\ UNCHANGED <<clients, invoices, settings, defaults, aliased, nextId, form>>
  /\ NotifyAndPush("deleteExpense", id, 0, "", bad)

\* `_settings.exchangeRate = rate` writes through to DEFAULT_SETTINGS when
\* init() has made both names denote one object
setExchangeRate(rate, bad) ==
  /\ CanRun
  /\ settings' = [settings EXCEPT !.exchangeRate = rate]
  /\ defaults' = IF aliased THEN [defaults EXCEPT !.exchangeRate = rate]
                 ELSE defaults
  /\ UNCHANGED <<clients, invoices, expenses, aliased, nextId, form>>
  /\ NotifyAndPush("setExchangeRate", "", 0, "", bad)

setPricePerKg(price, bad) ==
  /\ CanRun
  /\ settings' = [settings EXCEPT !.pricePerKg = price]
  /\ defaults' = IF aliased THEN [defaults EXCEPT !.pricePerKg = price]
                 ELSE defaults
  /\ UNCHANGED <<clients, invoices, expenses, aliased, nextId, form>>
  /\ NotifyAndPush("setPricePerKg", "", 0, "", bad)

----------------------------------------------------------------------------
(* Remote sync client *)

\* init() up to `await fetch(SCRIPT_URL)`
initStart ==
  /\ CanRun
  /\ initFlight' = initFlight + 1
  /\ now' = now + 1
  /\ log' = <<[e |-> "get", l |-> 0]>>
  /\ last' = [Idle EXCEPT !.op = "initStart", !.promise = "pending"]
  /\ UNCHANGED <<cacheVars, listeners, pushes, remote, sheet, calc, hook, nextId, form>>

\* InitFailed dropping the clients of the cache
InitFailedClearing(outcome) ==
  /\ log' = <<[e |-> "catch", l |-> 0]>>
  /\ last' = [Idle EXCEPT !.op = "init", !.id = outcome,
                          !.status = "failed", !.promise = "fulfilled"]
  /\ clients' = <<>>
  /\ UNCHANGED <<invoices, expenses, settings, defaults, aliased>>
\* init() when fetch rejects or response.json() raises: control goes to the
\* catch block before any assignment
InitFailed(outcome) ==
  /\ log' = <<[e |-> "catch", l |-> 0]>>
  /\ last' = [Idle EXCEPT !.op = "init", !.id = outcome,
                          !.status = "failed", !.promise = "fulfilled"]
  /\ UNCHANGED cacheVars

\* init() from the response on: the catch block swallows a failed fetch, an
\* unparseable body and also whatever a subscriber raises
initSettle(outcome, bad) ==
  /\ initFlight > 0
  /\ initFlight' = initFlight - 1
  /\ IF outcome \in {"network", "malformed"}
     THEN InitFailed(outcome)
     ELSE LET data == IF outcome = "envelope" THEN [error |-> "Exception"]
                      ELSE doGet(remote)
          IN  /\ clients' = InitClients(data)
              /\ invoices' = InitInvoices(data)
              /\ expenses' = InitExpenses(data)
              /\ settings' = InitSettings(data)
              /\ aliased' = ("settings" \notin DOMAIN data)
              /\ UNCHANGED defaults
              /\ log' = <<[e |-> "replace", l |-> 0]>>
                        \o notifyListeners(listeners, bad)
                        \o (IF Threw(listeners, bad)
                            THEN <<[e |-> "catch", l |-> 0]>> ELSE <<>>)
              /\ last' = [Idle EXCEPT !.op = "init", !.id = outcome,
                            !.status = IF Threw(listeners, bad)
                                       THEN "listenerThrew" ELSE "ok",
                            !.promise = "fulfilled"]
  /\ UNCHANGED <<listeners, pushes, remote, sheet, calc, hook, nextId, now, form>>

\* pushSettle sending a failed push again
pushSettleRetrying(k, ok) ==
  /\ k \in 1..Len(pushes)
  /\ pushes' = IF ok
               THEN [j \in 1..(Len(pushes) - 1) |->
                       IF j < k THEN pushes[j] ELSE pushes[j + 1]]
               ELSE pushes
  /\ remote' = IF ok THEN doPost(remote, pushes[k].body) ELSE remote
  /\ log' = IF ok THEN <<>> ELSE <<[e |-> "catch", l |-> 0]>>
  /\ last' = [Idle EXCEPT !.op = "pushSettle", !.idx = pushes[k].by,
                          !.status = IF ok THEN "ok" ELSE "failed",
                          !.promise = "fulfilled"]
  /\ form' = IF form.savingBy = pushes[k].by
              THEN [FormClosed EXCEPT !.ops = form.ops]
              ELSE form
  /\ UNCHANGED <<cacheVars, listeners, initFlight, nextId, now, sheet, calc, hook>>
\* pushToCloud() from the settling of its fetch on: the response is opaque
\* (no-cors), a rejected fetch is logged and swallowed
pushSettle(k, ok) ==
  /\ k \in 1..Len(pushes)
  /\ pushes' = [j \in 1..(Len(pushes) - 1) |->
                  IF j < k THEN pushes[j] ELSE pushes[j + 1]]
  /\ remote' = IF ok THEN doPost(remote, pushes[k].body) ELSE remote
  /\ log' = IF ok THEN <<>> ELSE <<[e |-> "catch", l |-> 0]>>
  /\ last' = [Idle EXCEPT !.op = "pushSettle", !.idx = pushes[k].by,
                          !.status = IF ok THEN "ok" ELSE "failed",
                          !.promise = "fulfilled"]
  \* handleSave resumes after `await StorageService.saveInvoice(invoice)`
  /\ form' = IF form.savingBy = pushes[k].by
              THEN [FormClosed EXCEPT !.ops = form.ops]
              ELSE form
  /\ UNCHANGED <<cacheVars, listeners, initFlight, nextId, now, sheet, calc, hook>>

\* the invoice life cycle: saves, status changes, deletions and reloads
Next ==
  \/ \E l \in Listeners : subscribe(l)
  \/ \E i \in InvoiceInputs, bad \in BadChoices : callSaveInvoice(i, bad)
  \/ \E c \in {<<"i1", DRAFT>>, <<"i1", PENDING>>, <<"i1", PARTIAL>>,
               <<"i1", PAID>>, <<"i1", DELIVERED>>, <<"zz", PAID>>},
        bad \in BadChoices : callUpdateInvoiceStatus(c[1], c[2], bad)
  \/ \E bad \in BadChoices : deleteInvoice("i1", bad)
  \/ initStart
  \/ \E o \in InitOutcomes, bad \in BadChoices : initSettle(o, bad)
  \/ \E k \in 1..MaxInFlight, ok \in BOOLEAN : pushSettle(k, ok)

Spec == Init /\ [][Next]_vars

SyncInvoice == CHOOSE i \in InvoiceInputs : i.id = "i1" /\ i.status = PARTIAL

\* the synchronisation protocol: every mutating operation of the cache, the
\* subscriptions, the pull and the pushes
SyncNext ==
  \/ \E l \in Listeners : subscribe(l)
  \/ \E l \in Listeners : unsubscribe(l)
  \/ \E c \in ClientInputs, bad \in BadChoices : saveClient(c, bad)
  \/ \E bad \in BadChoices : deleteClient("c1", bad)
  \/ \E bad \in BadChoices : callSaveInvoice(SyncInvoice, bad)
  \/ \E id \in {"i1", "zz"}, bad \in BadChoices :
       callUpdateInvoiceStatus(id, PAID, bad)
  \/ \E bad \in BadChoices : deleteInvoice("i1", bad)
  \/ \E x \in ExpenseInputs, bad \in BadChoices : saveExpense(x, bad)
  \/ \E bad \in BadChoices : deleteExpense("e1", bad)
  \/ \E r \in RateInputs, bad \in BadChoices : setExchangeRate(r, bad)
  \/ \E p \in PriceInputs, bad \in BadChoices : setPricePerKg(p, bad)
  \/ initStart
  \/ \E o \in InitOutcomes, bad \in BadChoices : initSettle(o, bad)
  \/ \E k \in 1..MaxInFlight, ok \in BOOLEAN : pushSettle(k, ok)

SyncSpec == Init /\ [][SyncNext]_vars

----------------------------------------------------------------------------
(* InvoiceForm: pure parts *)

\* the form's running totals
FormGrandTotal(f) ==
  SumSale(f.items) + f.logisticsCost + SumCommission(f.items)

\* the item addItem appends
NewItem(n) ==
  [id |-> "n" \o ToString(n), quantity |-> 1, weight |-> 0, weightUnit |-> "kg",
   originalPrice |-> 0, taxes |-> 3990, discounts |-> 0, finalPrice |-> -3990,
   commission |-> 0, isElectronics |-> FALSE]

\* updateItem on one item: a change of cost, tax or discount re-derives
\* the selling price
UpdatedItem(item, field, value) ==
  LET updated == [item EXCEPT ![field] = value]
  IN  IF field \in {"originalPrice", "taxes", "discounts"}
      THEN [updated EXCEPT !.finalPrice =
              Round2(updated.originalPrice - updated.taxes + updated.discounts)]
      ELSE updated

\* the effect on [items, configPricePerKg]: the logistics cost follows the
\* items, except while an existing invoice is still loading
LogisticsEffect(f, newItems) ==
  IF ~f.isLoaded /\ f.invoiceId # "" THEN f.logisticsCost
  ELSE calculateSuggestedLogistics(newItems, f.configPricePerKg)

\* the amount handleStatusChange stores with the new status
StatusAmount(f, newStatus) ==
  IF newStatus \in {PAID, DELIVERED} THEN Round2(FormGrandTotal(f))
  ELSE IF newStatus = PENDING THEN 0
  ELSE f.amountPaid

\* parseFloat(val), NaN read as 0: val is the text of the amount field
AmountOf(val) == IF val.text = "number" THEN val.n ELSE 0

\* AmountStatus without the `currentGrandTotal > 0` guard
AmountStatusNoGuard(f, newAmount) ==
  LET currentGrandTotal == Round2(FormGrandTotal(f))
  IN  IF f.status # DRAFT
      THEN IF newAmount > 0 /\ newAmount < currentGrandTotal THEN PARTIAL
           ELSE IF newAmount = 0 THEN PENDING
           ELSE IF newAmount >= currentGrandTotal /\ f.status # DELIVERED
                THEN PAID
           ELSE f.status
      ELSE f.status

\* the status handleAmountInput derives from the new amount
AmountStatus(f, newAmount) ==
  LET currentGrandTotal == Round2(FormGrandTotal(f))
  IN  IF f.status # DRAFT /\ currentGrandTotal > 0
      THEN IF newAmount > 0 /\ newAmount < currentGrandTotal THEN PARTIAL
           ELSE IF newAmount = 0 THEN PENDING
           ELSE IF newAmount >= currentGrandTotal /\ f.status # DELIVERED
                THEN PAID
           ELSE f.status
      ELSE f.status

\* the amount and status handleSetSeventyPercent stores
SeventyPercent(f) ==
  LET g == FormGrandTotal(f)
  IN  Round2Parts([int |-> (7 * g) \div 10, exact |-> (7 * g) % 10 = 0])

SeventyStatus(f) ==
  IF f.status # DRAFT /\ f.status # DELIVERED THEN PARTIAL ELSE f.status

\* getExchangeRate() / getPricePerKg()
getExchangeRate == IF safeParseFloat(settings.exchangeRate) # 0
                   THEN safeParseFloat(settings.exchangeRate) ELSE 40500
getPricePerKg == IF safeParseFloat(settings.pricePerKg) # 0
                 THEN safeParseFloat(settings.pricePerKg) ELSE 15430

----------------------------------------------------------------------------
(* InvoiceForm: handlers *)

FormCanRun == form.open /\ form.ops < MaxFormOps

Ticked(f) == [f EXCEPT !.ops = form.ops + 1]

\* a handler of the form that touches nothing outside the component
FormOnly(op) ==
  /\ last' = [Idle EXCEPT !.op = op]
  /\ log' = <<>>
  /\ UNCHANGED <<cacheVars, listeners, pushes, initFlight, remote, sheet, calc, hook, nextId, now>>

\* what a user may type into an item field
UpdateInputs ==
  { <<"originalPrice", 10000>>, <<"taxes", 0>>, <<"commission", 1005>>,
    <<"quantity", 2>>, <<"weight", 1>>, <<"weightUnit", "lb">>,
    <<"isElectronics", TRUE>> }

\* what a user may type into the amount field; the empty text parses to NaN
AmountInputs ==
  { [text |-> "", n |-> 0] }
  \cup { [text |-> "number", n |-> n] : n \in {0, 1000, 6010, 7015, 500000} }

\* mount of the form for a new invoice (id = "") or for a cached one
openForm(id) ==
  LET k == findIndex(getInvoices, id)
      inv == getInvoices[k]
      suggested == calculateSuggestedLogistics(inv.items, getPricePerKg)
      base == [FormClosed EXCEPT !.open = TRUE, !.invoiceId = id,
                                 !.exchangeRate = getExchangeRate,
                                 !.configPricePerKg = getPricePerKg,
                                 !.date = now]
  IN  /\ ~form.open
      /\ form.ops < MaxFormOps
      /\ id = "" \/ k > 0
      /\ form' = Ticked(IF id = "" THEN base
                        ELSE [base EXCEPT
                                !.clientId = inv.clientId,
                                !.status = inv.status,
                                !.exchangeRate = inv.exchangeRate,
                                !.amountPaid = inv.amountPaid,
                                !.items = inv.items,
                                !.logisticsCost =
                                   IF inv.logisticsCost = 0 /\ inv.items # <<>>
                                      /\ suggested > 0
                                   THEN suggested ELSE inv.logisticsCost,
                                !.date = inv.createdAt])
      /\ FormOnly("openForm")

\* the 100 ms timer that sets isLoadedRef
loadedTimer ==
  /\ form.open
  /\ ~form.isLoaded
  /\ form' = [form EXCEPT !.isLoaded = TRUE]
  /\ FormOnly("loadedTimer")

closeForm ==
  /\ FormCanRun
  /\ form' = Ticked(FormClosed)
  /\ FormOnly("closeForm")

setClientId(c) ==
  /\ FormCanRun
  /\ form' = Ticked([form EXCEPT !.clientId = c])
  /\ FormOnly("setClientId")

\* setItems(newItems) and the effect it triggers
SetItems(op, newItems) ==
  /\ FormCanRun
  /\ form' = Ticked([form EXCEPT !.items = newItems,
                                 !.logisticsCost = LogisticsEffect(form, newItems)])
  /\ FormOnly(op)

addItem == SetItems("addItem", Append(form.items, NewItem(form.ops + 1)))

updateItem(id, field, value) ==
  /\ findIndex(form.items, id) > 0
  /\ SetItems("updateItem", [k \in 1..Len(form.items) |->
                 IF form.items[k].id = id
                 THEN UpdatedItem(form.items[k], field, value)
                 ELSE form.items[k]])

removeItem(id) ==
  /\ findIndex(form.items, id) > 0
  /\ SetItems("removeItem", filterOut(form.items, id))

handleStatusChange(newStatus) ==
  /\ FormCanRun
  /\ form' = Ticked([form EXCEPT !.status = newStatus,
                                 !.amountPaid = StatusAmount(form, newStatus)])
  /\ FormOnly("handleStatusChange")

handleAmountInput(val) ==
  /\ FormCanRun
  /\ form' = Ticked([form EXCEPT !.amountPaid = AmountOf(val),
                                 !.status = AmountStatus(form, AmountOf(val))])
  /\ FormOnly("handleAmountInput")

handleSetSeventyPercent ==
  /\ FormCanRun
  /\ form' = Ticked([form EXCEPT !.amountPaid = SeventyPercent(form),
                                 !.status = SeventyStatus(form)])
  /\ FormOnly("handleSetSeventyPercent")

\* the invoice handleSave hands to saveInvoice
FormInvoice(f) ==
  [id |-> IF f.invoiceId # "" THEN f.invoiceId ELSE "f" \o ToString(f.ops + 1),
   clientId |-> f.clientId, createdAt |-> f.date, updatedAt |-> now + 1,
   status |-> f.status, exchangeRate |-> f.exchangeRate, items |-> f.items,
   logisticsCost |-> f.logisticsCost, amountPaid |-> f.amountPaid,
   totalProductCost |-> 0, totalProductSale |-> 0, totalCommissions |-> 0,
   grandTotalUsd |-> 0]

\* handleSave without the test of the client
handleSaveUnchecked(bad) ==
  /\ FormCanRun
  /\ saveInvoice(FormInvoice(form), bad)
  /\ form' = Ticked([form EXCEPT !.savingBy =
                       IF Threw(listeners, bad) THEN @ ELSE now + 1])
handleSave(bad) ==
  /\ FormCanRun
  /\ IF form.clientId = ""
     THEN /\ form' = Ticked(form)
          /\ FormOnly("handleSave")
     ELSE /\ saveInvoice(FormInvoice(form), bad)
          /\ form' = Ticked([form EXCEPT !.savingBy =
                               IF Threw(listeners, bad) THEN @ ELSE now + 1])

\* InvoiceList.handleStatusChange: the status select of a row of the list
listStatusChange(id, newStatus) ==
  /\ form.ops < MaxFormOps
  /\ updateInvoiceStatus(id, newStatus, 0)
  /\ form' = Ticked(form)

FormInit == Init /\ remote = EmptySheets

FormNext ==
  \/ \E id \in {""} \cup {invoices[k].id : k \in 1..Len(invoices)} : openForm(id)
  \/ loadedTimer
  \/ closeForm
  \/ setClientId("c1")
  \/ addItem
  \/ \E k \in 1..Len(form.items), u \in UpdateInputs :
       updateItem(form.items[k].id, u[1], u[2])
  \/ \E k \in 1..Len(form.items) : removeItem(form.items[k].id)
  \/ \E st \in InvoiceStatus : handleStatusChange(st)
  \/ \E val \in AmountInputs : handleAmountInput(val)
  \/ handleSetSeventyPercent
  \/ handleSave(0)
  \/ \E k \in 1..Len(invoices), st \in InvoiceStatus :
       listStatusChange(invoices[k].id, st)
  \/ \E k \in 1..MaxInFlight, ok \in BOOLEAN : pushSettle(k, ok)

FormSpec == FormInit /\ [][FormNext]_vars

----------------------------------------------------------------------------
(* Claims *)

AmountEdits == {"handleAmountInput", "handleSetSeventyPercent"}

\* C1: after any saveInvoice the stored invoice has grandTotalUsd equal to
\* totalProductSale + logisticsCost + totalCommissions, the two sums taken
\* over its items, whatever totals the caller passed in
C1_GrandTotalAfterSave ==
  last.op = "saveInvoice" =>
    LET inv == invoices[last.idx]
    IN  /\ inv.totalProductSale = SumSale(inv.items)
        /\ inv.totalCommissions = SumCommission(inv.items)
        /\ inv.grandTotalUsd = inv.totalProductSale + inv.logisticsCost
                               + inv.totalCommissions

\* a save of an invoice with items whose caller passed 999.00 as the total
C1_Witness ==
  /\ last.op = "saveInvoice"
  /\ invoices[last.idx].items = <<ItemA, ItemB>>
  /\ invoices[last.idx].grandTotalUsd = 63015

\* C2: updateInvoiceStatus(id, Paid | Delivered) on a cached invoice leaves
\* amountPaid equal to the grandTotalUsd that getInvoices() reports, and
\* updateInvoiceStatus(id, Pending) leaves amountPaid = 0
C2_StatusSetsAmount ==
  (last.op = "updateInvoiceStatus" /\ last.idx > 0) =>
    LET view == getInvoices[last.idx]
    IN  /\ last.status \in {PAID, DELIVERED} => view.amountPaid = view.grandTotalUsd
        /\ last.status = PENDING => view.amountPaid = 0

C4_DeliveredSticky ==
  [][(last'.op \in AmountEdits /\ form.status = DELIVERED) =>
       form'.status = DELIVERED]_vars

\* C5: while the status is Draft no amount edit changes the status, and
\* setting the status to Draft, in the form or through updateInvoiceStatus,
\* leaves amountPaid unchanged
C5_DraftDecoupled ==
  [][/\ (last'.op \in AmountEdits /\ form.status = DRAFT) =>
          form'.status = DRAFT
     /\ (last'.op = "handleStatusChange" /\ form'.status = DRAFT) =>
          form'.amountPaid = form.amountPaid
     /\ (last'.op = "updateInvoiceStatus" /\ last'.status = DRAFT
         /\ last'.idx > 0) =>
          invoices'[last'.idx].amountPaid = invoices[last'.idx].amountPaid]_vars

\* a cached invoice with a payment has just been set back to Draft
C5_Witness ==
  /\ last.op = "updateInvoiceStatus"
  /\ last.status = DRAFT
  /\ last.idx > 0
  /\ invoices[last.idx].status = DRAFT
  /\ invoices[last.idx].amountPaid > 0

----------------------------------------------------------------------------
(* Synchronisation protocol *)

\* number of times subscriber l was called during the last step
Notified(l) ==
  Cardinality({k \in 1..Len(log) : log[k] = [e |-> "notify", l |-> l]})

Mutators ==
  {"saveClient", "deleteClient", "saveInvoice", "updateInvoiceStatus",
   "deleteInvoice", "saveExpense", "deleteExpense", "setExchangeRate",
   "setPricePerKg"}

\* C6: after an init() that ran through its try block, the clients, the
\* invoices, the expenses and the settings of the cache are all those of the
\* one response (a collection the response lacks is empty, settings it lacks
\* are the defaults), and every subscriber was called exactly once.
C6_InitReplacesAll ==
  (last.op = "init" /\ last.status = "ok") =>
    LET data == IF last.id = "envelope" THEN [error |-> "Exception"]
                ELSE doGet(remote)
        has(f) == f \in DOMAIN data
    IN  /\ clients = IF has("clients") THEN data.clients ELSE <<>>
        /\ invoices = IF has("invoices") THEN data.invoices ELSE <<>>
        /\ expenses = IF has("expenses")
                      THEN [k \in 1..Len(data.expenses) |->
                              [data.expenses[k] EXCEPT
                                 !.amount = safeParseFloat(@)]]
                      ELSE <<>>
        /\ settings = IF has("settings") THEN data.settings ELSE defaults
        /\ \A l \in Range(listeners) : Notified(l) = 1

\* a reload, with two subscribers, that brings invoices and drops the
\* expense the cache held before
C6_Witness ==
  /\ last.op = "init" /\ last.status = "ok" /\ last.id = "data"
  /\ Len(listeners) >= 1
  /\ Len(invoices) > 0
  /\ nextId > 0 /\ expenses = <<>>

\* C7: an init() whose request fails or whose response body does not parse
\* leaves clients, invoices, expenses and settings as they were, calls no
\* subscriber, sends no further request and fulfils its promise.
C7_FailedInitKeepsCache ==
  [][(last'.op = "init" /\ last'.status = "failed") =>
       /\ cacheVars' = cacheVars
       /\ \A k \in 1..Len(log') : log'[k].e # "notify"
       /\ initFlight' = initFlight - 1
       /\ pushes' = pushes
       /\ last'.promise = "fulfilled"]_vars

C7_Witness ==
  /\ last.op = "init" /\ last.status = "failed"
  /\ Len(clients) > 0 /\ Len(listeners) > 0

\* C8: in every mutating operation that changes the cache, the cache change
\* comes first, the push is dispatched last, and every subscriber has been
\* called before the push is dispatched.
C8_MutateNotifyPush ==
  (last.op \in Mutators /\ log # <<>>) =>
    /\ log[1].e = "mutate"
    /\ \A k \in 2..Len(log) : log[k].e # "mutate"
    /\ \A p \in 1..Len(log) :
         log[p].e = "push" =>
           /\ p = Len(log)
           /\ \A l \in Range(listeners) :
                \E k \in 2..(p - 1) : log[k] = [e |-> "notify", l |-> l]

C8_Witness ==
  /\ last.op \in Mutators
  /\ Len(listeners) = 2
  /\ Len(log) = 4 /\ log[4].e = "push"

\* C9: every save operation calls all registered subscribers and sends
\* exactly one push whose body is the cache as it is right after the
\* mutation, also when a subscriber raises.
C9_SaveNotifiesAllAndPushes ==
  last.op \in {"saveClient", "saveInvoice", "saveExpense"} =>
    /\ \A l \in Range(listeners) : Notified(l) = 1
    /\ Cardinality({k \in 1..Len(log) : log[k].e = "push"}) = 1
    /\ Len(pushes) > 0
    /\ pushes[Len(pushes)] =
         [by |-> now,
          body |-> PayloadOf(clients, invoices, expenses, settings, now)]

\* C10: a push that fails changes nothing in the cache, leaves no request
\* behind and lets the promise of the operation that sent it be fulfilled.
C10_FailedPushNoRollback ==
  [][(last'.op = "pushSettle" /\ last'.status = "failed") =>
       /\ cacheVars' = cacheVars
       /\ Len(pushes') = Len(pushes) - 1
       /\ \A j \in 1..Len(pushes') : pushes'[j].by # last'.idx
       /\ initFlight' = initFlight
       /\ remote' = remote
       /\ last'.promise = "fulfilled"]_vars

C10_Witness ==
  /\ last.op = "pushSettle" /\ last.status = "failed"
  /\ Len(clients) > 0
  /\ remote.Clients = <<>>

----------------------------------------------------------------------------
(* Collections of the cache *)

\* the collection new is old after an upsert of the stored entity e: e took
\* the place of the entity with its id, or was appended under some id
Upserted(old, new, e) ==
  LET index == findIndex(old, e.id)
  IN  IF index > 0
      THEN new = [old EXCEPT ![index] = e]
      ELSE /\ Len(new) = Len(old) + 1
           /\ SubSeq(new, 1, Len(old)) = old
           /\ new[Len(new)] = [e EXCEPT !.id = new[Len(new)].id]

\* the id under which an entity passed with id was appended is a new one
AppendedFresh(old, new, id) ==
  findIndex(old, id) = 0 =>
    /\ new[Len(new)].id = generateId(nextId')
    /\ nextId' = nextId + 1
    /\ findIndex(old, new[Len(new)].id) = 0

\* the id under which an entity passed with id was appended is its own, or a
\* new one when it has none
AppendedKept(old, new, id) ==
  findIndex(old, id) = 0 =>
    IF id = "" THEN AppendedFresh(old, new, id)
    ELSE new[Len(new)].id = id /\ nextId' = nextId

\* the invoice saveInvoice stores for the invoice i it is given
StoredInvoice(i) ==
  [FinalInvoice(i, now') EXCEPT
     !.createdAt = IF findIndex(invoices, i.id) > 0 THEN @ ELSE now']

\* C11 (as stated): a save replaces the entity with the same id in place,
\* the length unchanged, and otherwise appends the entity under a newly
\* generated id, the length growing by one.
C11_UpsertById ==
  [][/\ \A c \in ClientInputs, bad \in BadChoices :
          saveClient(c, bad) =>
            Upserted(clients, clients', c) /\ AppendedFresh(clients, clients', c.id)
     /\ \A i \in InvoiceInputs, bad \in BadChoices :
          saveInvoice(i, bad) =>
            /\ Upserted(invoices, invoices', StoredInvoice(i))
            /\ AppendedFresh(invoices, invoices', i.id)
     /\ \A x \in ExpenseInputs, bad \in BadChoices :
          saveExpense(x, bad) =>
            Upserted(expenses, expenses', x) /\ AppendedFresh(expenses, expenses', x.id)
    ]_vars

\* C11 (amended): a save replaces the entity with the same id in place, the
\* length unchanged, and otherwise appends the entity, the length growing by
\* one, under its own id when it has one and under a newly generated id
\* when its id is empty.
C11_UpsertKeepsGivenId ==
  [][/\ \A c \in ClientInputs, bad \in BadChoices :
          saveClient(c, bad) =>
            Upserted(clients, clients', c) /\ AppendedKept(clients, clients', c.id)
     /\ \A i \in InvoiceInputs, bad \in BadChoices :
          saveInvoice(i, bad) =>
            /\ Upserted(invoices, invoices', StoredInvoice(i))
            /\ AppendedKept(invoices, invoices', i.id)
     /\ \A x \in ExpenseInputs, bad \in BadChoices :
          saveExpense(x, bad) =>
            Upserted(expenses, expenses', x) /\ AppendedKept(expenses, expenses', x.id)
    ]_vars

\* a client saved twice under the id it came with: appended, then replaced
C11_Witness ==
  /\ last.op = "saveClient" /\ last.id = "c1" /\ last.idx = 1
  /\ Len(clients) = 1 /\ clients[1].id = "c1"
  /\ now >= 2 /\ remote = EmptySheets /\ nextId = 0

\* C12: saveInvoice called a second time, right after the first, with the
\* same invoice object leaves the number of invoices as the first call left
\* it, and the invoice is still found under the id the first call stored it
\* with; also for an object whose id is empty.
C12_SaveTwiceSameLength ==
  [][\A i \in InvoiceInputs, bad \in BadChoices :
       (/\ last.op = "saveInvoice" /\ last.id = i.id /\ last.status = i.status
        /\ saveInvoice(i, bad)) =>
         /\ Len(invoices') = Len(invoices)
         /\ findIndex(invoices', invoices[last.idx].id) = last'.idx
    ]_vars

\* C13: a delete removes from its own collection the entities with the id it
\* is given, keeps the others in their order and leaves the other
\* collections and the settings as they were; deleting a client leaves the
\* invoices of that client in the cache.
C13_DeleteRemovesOnlyThatId ==
  [][/\ last'.op = "deleteClient" =>
          /\ clients' = SelectSeq(clients, LAMBDA x : x.id # last'.id)
          /\ UNCHANGED <<invoices, expenses, settings>>
     /\ last'.op = "deleteInvoice" =>
          /\ invoices' = SelectSeq(invoices, LAMBDA x : x.id # last'.id)
          /\ UNCHANGED <<clients, expenses, settings>>
     /\ last'.op = "deleteExpense" =>
          /\ expenses' = SelectSeq(expenses, LAMBDA x : x.id # last'.id)
          /\ UNCHANGED <<clients, invoices, settings>>
    ]_vars

\* the only client was deleted and its invoice is still there
C13_Witness ==
  /\ last.op = "deleteClient" /\ last.id = "c1"
  /\ clients = <<>>
  /\ Len(remote.Clients) = 1
  /\ Len(invoices) = 2 /\ invoices[1].clientId = "c1"
  /\ Len(expenses) = 1

----------------------------------------------------------------------------
(* The spreadsheet at cell level.  A sheet is a grid of cells, row 1 the    *)
(* header row; a cell is <<>> when blank and <<v>> when it holds v.  The    *)
(* repository has the web-hook in two versions, 2.1                         *)
(* (src/GOOGLE_APPS_SCRIPT.js) and 4.3 (src/unnamed/part_008).              *)

MaxSheetOps == 2   \* requests served in one behaviour of SheetSpec

SheetRows == 4     \* getMaxRows() of every sheet: the header row and 3 more

\* the last column, and the last row, that hold content (0: none)
getLastColumn(g) ==
  LET cs == {c \in 1..Len(g[1]) : \E r \in 1..Len(g) : g[r][c] # <<>>}
  IN  IF cs = {} THEN 0 ELSE CHOOSE x \in cs : \A y \in cs : y <= x

getLastRow(g) ==
  LET rs == {r \in 1..Len(g) : \E c \in 1..Len(g[r]) : g[r][c] # <<>>}
  IN  IF rs = {} THEN 0 ELSE CHOOSE x \in rs : \A y \in rs : y <= x

\* sheet.getRange(row, col, numRows, numCols).getValues()
getValues(g, row, col, numRows, numCols) ==
  [i \in 1..numRows |->
     [j \in 1..numCols |->
        IF row + i - 1 <= Len(g) /\ col + j - 1 <= Len(g[1])
        THEN g[row + i - 1][col + j - 1] ELSE <<>>]]

\* sheet.getRange(row, col, Len(values), Len(values[1])).setValues(values)
setValues(g, row, col, values) ==
  [r \in 1..Len(g) |->
     [c \in 1..Len(g[r]) |->
        IF /\ r \in row..(row + Len(values) - 1)
           /\ c \in col..(col + Len(values[1]) - 1)
        THEN values[r - row + 1][c - col + 1]
        ELSE g[r][c]]]

\* sheet.getRange(row, col, numRows, numCols).clearContent()
clearContent(g, row, col, numRows, numCols) ==
  [r \in 1..Len(g) |->
     [c \in 1..Len(g[r]) |->
        IF r \in row..(row + numRows - 1) /\ c \in col..(col + numCols - 1)
        THEN <<>> ELSE g[r][c]]]

\* [headers] as a row of cells
HeaderCells(headers) == [i \in 1..Len(headers) |-> <<headers[i]>>]

\* ss.insertSheet(sheetName): a blank grid, one column wider than the
\* declared headers
insertSheet(headers) ==
  [r \in 1..SheetRows |-> [c \in 1..(Len(headers) + 1) |-> <<>>]]

\* dataArray.map(obj => headers.map(header => obj[header] ?? ''))
DataCells(headers, dataArray) ==
  [k \in 1..Len(dataArray) |->
     [i \in 1..Len(headers) |->
        IF headers[i] \in DOMAIN dataArray[k]
        THEN <<dataArray[k][headers[i]]>> ELSE <<>>]]

\* writeSheetRows of version 4.3 on the sheet g; no sheet is g = <<>>
writeSheetRowsV43(g, headers, dataArray) ==
  LET n == Len(headers)
      lastCol == IF getLastColumn(g) > n THEN getLastColumn(g) ELSE n
      currentHeaders == getValues(g, 1, 1, 1, lastCol)[1]
      headersChanged ==
        IF lastCol # n THEN TRUE
        ELSE \E i \in 1..lastCol : currentHeaders[i] # <<headers[i]>>
      rewritten == setValues(g, 1, 1, <<HeaderCells(headers)>>)
      g1 == IF g = <<>>
            THEN setValues(insertSheet(headers), 1, 1, <<HeaderCells(headers)>>)
            ELSE IF ~headersChanged THEN g
            ELSE IF lastCol > n
                 THEN clearContent(rewritten, 1, n + 1, Len(g),
                                   lastCol - n)
                 ELSE rewritten
      maxRows == Len(g1)      \* sheet.getMaxRows()
      g2 == IF maxRows > 1 THEN clearContent(g1, 2, 1, maxRows - 1, n) ELSE g1
  IN  IF dataArray = <<>> THEN g2
      ELSE setValues(g2, 2, 1, DataCells(headers, dataArray))

\* writeSheetRows of version 2.1 on the sheet g: only the first header is
\* compared (the range read is always headers.length wide)
writeSheetRowsV21(g, headers, dataArray) ==
  LET n == Len(headers)
      currentHeaders == getValues(g, 1, 1, 1, n)[1]
      g1 == IF g = <<>>
            THEN setValues(insertSheet(headers), 1, 1, <<HeaderCells(headers)>>)
            ELSE IF Len(currentHeaders) # n \/ currentHeaders[1] # <<headers[1]>>
                 THEN setValues(g, 1, 1, <<HeaderCells(headers)>>)
                 ELSE g
      lastRow == getLastRow(g1)
      g2 == IF lastRow > 1
            THEN clearContent(g1, 2, 1, lastRow - 1, getLastColumn(g1))
            ELSE g1
  IN  IF dataArray = <<>> THEN g2
      ELSE setValues(g2, 2, 1, DataCells(headers, dataArray))

\* readSheetRows (the same in both versions): the rows down to the last one
\* with content, as objects keyed by the declared headers; a blank cell is ''
readSheetRows(g, headers) ==
  IF g = <<>> THEN <<>>
  ELSE IF getLastRow(g) < 2 THEN <<>>
  ELSE LET data == getValues(g, 2, 1, getLastRow(g) - 1, Len(headers))
       IN  [k \in 1..Len(data) |->
              [h \in Range(headers) |->
                 LET value == data[k][CHOOSE i \in 1..Len(headers) :
                                        headers[i] = h]
                 IN  IF h = "items"
                     THEN IF value = <<>> THEN <<>> ELSE ParseItems(value[1])
                     ELSE IF value = <<>> THEN "" ELSE value[1]]]

\* doPost on the spreadsheet s: version 2.1 knows no Expenses sheet
sheetDoPost(s, body) ==
  IF s.version = "4.3"
  THEN [s EXCEPT
          !.Clients = IF "clients" \in DOMAIN body
                      THEN writeSheetRowsV43(@, CLIENT_HEADERS, body.clients)
                      ELSE @,
          !.Invoices = IF "invoices" \in DOMAIN body
                       THEN writeSheetRowsV43(@, INVOICE_HEADERS,
                              [k \in 1..Len(body.invoices) |->
                                 ProcessedInvoice(body.invoices[k])])
                       ELSE @,
          !.Expenses = IF "expenses" \in DOMAIN body
                       THEN writeSheetRowsV43(@, EXPENSE_HEADERS,
                              [k \in 1..Len(body.expenses) |->
                                 ProcessedExpense(body.expenses[k])])
                       ELSE @,
          !.Settings = IF "settings" \in DOMAIN body THEN body.settings ELSE @]
  ELSE [s EXCEPT
          !.Clients = IF "clients" \in DOMAIN body
                      THEN writeSheetRowsV21(@, CLIENT_HEADERS, body.clients)
                      ELSE @,
          !.Invoices = IF "invoices" \in DOMAIN body
                       THEN writeSheetRowsV21(@, INVOICE_HEADERS,
                              [k \in 1..Len(body.invoices) |->
                                 ProcessedInvoice(body.invoices[k])])
                       ELSE @,
          !.Settings = IF "settings" \in DOMAIN body THEN body.settings ELSE @]

\* doGet on the spreadsheet s: the rows read, their numbers sanitised by
\* safeNumber (0 for a blank cell); version 2.1 returns no expenses
sheetDoGet(s) ==
  LET num(g, headers, k, h) ==
        LET cell == g[k + 1][CHOOSE i \in 1..Len(headers) : headers[i] = h]
        IN  IF cell = <<>> THEN 0 ELSE safeNumber(cell[1])
      invoiceRows == readSheetRows(s.Invoices, INVOICE_HEADERS)
      safeInvoices ==
        [k \in 1..Len(invoiceRows) |->
           [invoiceRows[k] EXCEPT
              !.logisticsCost = num(s.Invoices, INVOICE_HEADERS, k, "logisticsCost"),
              !.amountPaid = num(s.Invoices, INVOICE_HEADERS, k, "amountPaid"),
              !.grandTotalUsd = num(s.Invoices, INVOICE_HEADERS, k, "grandTotalUsd"),
              !.exchangeRate = num(s.Invoices, INVOICE_HEADERS, k, "exchangeRate")]]
  IN  IF s.version = "4.3"
      THEN LET expenseRows == readSheetRows(s.Expenses, EXPENSE_HEADERS)
           IN  [clients  |-> readSheetRows(s.Clients, CLIENT_HEADERS),
                invoices |-> safeInvoices,
                expenses |->
                  [k \in 1..Len(expenseRows) |->
                     [expenseRows[k] EXCEPT
                        !.amount = num(s.Expenses, EXPENSE_HEADERS, k, "amount")]],
                settings |-> readSettingsSheet(s.Settings)]
      ELSE [clients  |-> readSheetRows(s.Clients, CLIENT_HEADERS),
            invoices |-> safeInvoices,
            settings |-> readSettingsSheet(s.Settings)]

(* Spreadsheets the web-hook may find, and the datasets posted to it *)

\* an existing sheet: the header row that an earlier deployment left (the
\* declared one, but for one column) and the rows an earlier POST wrote
ExistingSheet(headers, drift, oldData) ==
  LET n == Len(headers)
      cells == DataCells(headers, oldData)
      at == IF drift = "first" THEN 1
            ELSE IF drift = "middle" THEN (n + 1) \div 2
            ELSE IF drift \in {"last", "fewer"} THEN n
            ELSE IF drift = "more" THEN n + 1
            ELSE 0
  IN  [r \in 1..SheetRows |->
         IF r = 1
         THEN [c \in 1..(n + 1) |->
                 IF c = at THEN (IF drift = "fewer" THEN <<>> ELSE <<"legacy">>)
                 ELSE IF c <= n THEN <<headers[c]>>
                 ELSE <<>>]
         ELSE [c \in 1..(n + 1) |->
                 IF r - 1 > Len(oldData) THEN <<>>
                 ELSE IF c <= n THEN cells[r - 1][c]
                 ELSE IF drift = "more" THEN <<"x">>
                 ELSE <<>>]]

\* the rows of an earlier POST, by sheet
OldRows ==
  [Clients |->
     [k \in 1..3 |-> [id |-> "o" \o ToString(k), name |-> "Ana",
                      phone |-> "0412-1111111"]],
   Invoices |->
     [k \in 1..3 |->
        ProcessedInvoice([id |-> "oi" \o ToString(k), clientId |-> "o1",
                          createdAt |-> 0, updatedAt |-> 0, status |-> PENDING,
                          exchangeRate |-> 40500, logisticsCost |-> 0,
                          amountPaid |-> 0, grandTotalUsd |-> 32000,
                          items |-> <<ItemA>>])],
   Expenses |->
     [k \in 1..3 |-> [id |-> "oe" \o ToString(k), description |-> "cinta",
                      amount |-> 2500, category |-> "Material", date |-> 1]]]

\* the spreadsheets: either version of the web-hook; the sheet of one entity
\* type missing, or with a drifted header row; three old rows or none
SheetInits ==
  { [phase |-> "init", version |-> v,
     Clients  |-> IF t # "Clients" THEN
                    ExistingSheet(CLIENT_HEADERS, "same", SubSeq(OldRows.Clients, 1, old))
                  ELSE IF d = "missing" THEN <<>>
                  ELSE ExistingSheet(CLIENT_HEADERS, d, SubSeq(OldRows.Clients, 1, old)),
     Invoices |-> IF t # "Invoices" THEN
                    ExistingSheet(INVOICE_HEADERS, "same", SubSeq(OldRows.Invoices, 1, old))
                  ELSE IF d = "missing" THEN <<>>
                  ELSE ExistingSheet(INVOICE_HEADERS, d, SubSeq(OldRows.Invoices, 1, old)),
     Expenses |-> IF t # "Expenses" THEN
                    ExistingSheet(EXPENSE_HEADERS, "same", SubSeq(OldRows.Expenses, 1, old))
                  ELSE IF d = "missing" THEN <<>>
                  ELSE ExistingSheet(EXPENSE_HEADERS, d, SubSeq(OldRows.Expenses, 1, old)),
     Settings |-> [exchangeRate |-> 38000, pricePerKg |-> 15430],
     drifted |-> t, drift |-> d,
     posted |-> <<>>, got |-> <<>>, ops |-> 0] :
    v \in {"2.1", "4.3"}, t \in {"Clients", "Invoices", "Expenses"},
    d \in {"same", "first", "middle", "last", "fewer", "more", "missing"}, old \in {0, 3} }

\* datasets as pushToCloud sends them: nothing, one entity of each type, and
\* clients and expenses only
SheetBodies ==
  { PayloadOf(<<>>, <<>>, <<>>, DEFAULT_SETTINGS, 1),
    PayloadOf(<<[id |-> "c1", name |-> "Maria", phone |-> "0414-0000000"]>>,
              <<FinalInvoice(SyncInvoice, 1)>>,
              <<[id |-> "e1", description |-> "envio", amount |-> 7500,
                 category |-> "Transporte", date |-> 1]>>,
              [exchangeRate |-> 36000, pricePerKg |-> 15000], 1),
    PayloadOf(<<[id |-> "c1", name |-> "Maria", phone |-> "0414-0000000"],
                [id |-> "c2", name |-> "Luis", phone |-> "0424-2222222"]>>,
              <<>>,
              <<[id |-> "e1", description |-> "envio", amount |-> 7500,
                 category |-> "Transporte", date |-> 1],
                [id |-> "e2", description |-> "cajas", amount |-> 5000,
                 category |-> "Material", date |-> 2]>>,
              DEFAULT_SETTINGS, 1) }

(* The web-hook's handlers *)

\* doPost(e) with e.postData.contents the JSON text of body
sheetPost(body) ==
  /\ sheet.phase # "off"
  /\ sheet.ops < MaxSheetOps
  /\ sheet' = [sheetDoPost(sheet, body) EXCEPT
                 !.phase = "posted", !.posted = <<body>>, !.got = <<>>,
                 !.ops = @ + 1]
  /\ last' = [Idle EXCEPT !.op = "doPost"]
  /\ log' = <<>>
  /\ UNCHANGED <<cacheVars, listeners, pushes, initFlight, remote, nextId,
                 now, form, calc, hook>>

\* doGet(e)
sheetGet ==
  /\ sheet.phase # "off"
  /\ sheet.ops < MaxSheetOps
  /\ sheet' = [sheet EXCEPT
                 !.phase = IF @ \in {"posted", "got"} THEN "got" ELSE "read",
                 !.got = <<sheetDoGet(sheet)>>,
                 !.ops = @ + 1]
  /\ last' = [Idle EXCEPT !.op = "doGet"]
  /\ log' = <<>>
  /\ UNCHANGED <<cacheVars, listeners, pushes, initFlight, remote, nextId,
                 now, form, calc, hook>>

SheetInit ==
  /\ CacheInit /\ remote = EmptySheets /\ sheet \in SheetInits
  /\ calc = [phase |-> "off"] /\ hook = [phase |-> "off"]

SheetNext ==
  \/ \E body \in SheetBodies : sheetPost(body)
  \/ sheetGet

SheetSpec == SheetInit /\ [][SheetNext]_vars

\* what a GET returns for a posted entity: its declared columns, '' for
\* those it lacks
Returned(posted, headers) ==
  [k \in 1..Len(posted) |-> RowOf(posted[k], headers)]

\* C14: a GET that follows a POST returns, for clients, invoices, expenses
\* and settings, the posted entities in the posted order (their declared
\* columns, the items as the posted array) and nothing else.
C14_GetReturnsPosted ==
  sheet.phase = "got" =>
    LET body == sheet.posted[1]
        data == sheet.got[1]
    IN  /\ "clients" \in DOMAIN data
        /\ data.clients = Returned(body.clients, CLIENT_HEADERS)
        /\ "invoices" \in DOMAIN data
        /\ data.invoices = Returned(body.invoices, INVOICE_HEADERS)
        /\ "expenses" \in DOMAIN data
        /\ data.expenses = Returned(body.expenses, EXPENSE_HEADERS)
        /\ "settings" \in DOMAIN data
        /\ data.settings = body.settings

\* the header row of the sheet g: row 1 up to its last cell with content
HeaderRow(g) ==
  LET cs == {c \in 1..Len(g[1]) : g[1][c] # <<>>}
  IN  IF cs = {} THEN <<>> ELSE SubSeq(g[1], 1, CHOOSE x \in cs : \A y \in cs : y <= x)

\* C15: after writeSheetRows has run on a sheet, the header row of the
\* sheet is the declared header list of its entity type, whichever column
\* of the persisted header row differed and whether it had fewer or more
\* columns.
C15_HeaderRowHealed ==
  sheet.phase = "posted" =>
    /\ HeaderRow(sheet.Clients) = HeaderCells(CLIENT_HEADERS)
    /\ HeaderRow(sheet.Invoices) = HeaderCells(INVOICE_HEADERS)
    /\ sheet.version = "4.3" =>
         HeaderRow(sheet.Expenses) = HeaderCells(EXPENSE_HEADERS)

----------------------------------------------------------------------------
(* Dashboard: the aggregates of src/components/Dashboard.tsx over what      *)
(* getInvoices() returns.  A share of profit is a fraction num/den.         *)

FINANCIALLY_ACTIVE_STATUSES == {PARTIAL, PAID, DELIVERED}

\* the dashboard's theoreticalProfit of an invoice
DashboardProfit(inv) ==
  SumSeq([k \in 1..Len(inv.items) |->
            ((inv.items[k].finalPrice - inv.items[k].originalPrice)
             + inv.items[k].commission) * inv.items[k].quantity])

\* the form's estimatedProfit: sale + commission - (cost - tax), per unit
estimatedProfit(items) ==
  SumSeq([k \in 1..Len(items) |->
            (items[k].finalPrice + items[k].commission
             - (items[k].originalPrice - items[k].taxes)) * items[k].quantity])

\* profit * Math.min(1, percentPaid), with percentPaid 0 unless the grand
\* total is positive
Realized(profit, inv) ==
  IF inv.grandTotalUsd > 0
  THEN IF inv.amountPaid >= inv.grandTotalUsd
       THEN [num |-> profit, den |-> 1]
       ELSE [num |-> profit * inv.amountPaid, den |-> inv.grandTotalUsd]
  ELSE [num |-> 0, den |-> 1]

\* DashboardTerm with the balance left signed
DashboardTermSigned(inv) ==
  IF inv.status = DRAFT
  THEN [count |-> 0, pending |-> 0, revenue |-> 0,
        netProfit |-> [num |-> 0, den |-> 1]]
  ELSE [count     |-> 1,
        pending   |-> inv.grandTotalUsd - inv.amountPaid,
        revenue   |-> IF inv.status \in FINANCIALLY_ACTIVE_STATUSES
                      THEN inv.amountPaid ELSE 0,
        netProfit |-> IF inv.status \in FINANCIALLY_ACTIVE_STATUSES
                      THEN Realized(DashboardProfit(inv), inv)
                      ELSE [num |-> 0, den |-> 1]]
\* what one pass of `invoices.forEach` adds to count, pending, revenue and
\* netProfit
DashboardTerm(inv) ==
  IF inv.status = DRAFT
  THEN [count |-> 0, pending |-> 0, revenue |-> 0,
        netProfit |-> [num |-> 0, den |-> 1]]
  ELSE [count     |-> 1,
        \* Math.max(0, grandTotal - amountPaid)
        pending   |-> IF inv.grandTotalUsd - inv.amountPaid > 0
                      THEN inv.grandTotalUsd - inv.amountPaid ELSE 0,
        revenue   |-> IF inv.status \in FINANCIALLY_ACTIVE_STATUSES
                      THEN inv.amountPaid ELSE 0,
        netProfit |-> IF inv.status \in FINANCIALLY_ACTIVE_STATUSES
                      THEN Realized(DashboardProfit(inv), inv)
                      ELSE [num |-> 0, den |-> 1]]

\* the dashboard's stats; netProfit is kept as the terms it sums
stats ==
  LET terms == [k \in 1..Len(getInvoices) |-> DashboardTerm(getInvoices[k])]
  IN  [revenue   |-> SumSeq([k \in 1..Len(terms) |-> terms[k].revenue]),
       pending   |-> SumSeq([k \in 1..Len(terms) |-> terms[k].pending]),
       count     |-> SumSeq([k \in 1..Len(terms) |-> terms[k].count]),
       netProfit |-> [k \in 1..Len(terms) |-> terms[k].netProfit]]

\* C16: an invoice adds to the realized profit only in status Partial, Paid
\* or Delivered, and then adds theoreticalProfit * min(1, amountPaid /
\* grandTotalUsd), theoreticalProfit being the sum over its items of
\* (finalPrice + commission - (originalPrice - taxes)) * quantity.
C16_RealizedProfit ==
  \A k \in 1..Len(getInvoices) :
    LET inv == getInvoices[k]
    IN  inv.grandTotalUsd > 0 =>
          stats.netProfit[k] =
            IF inv.status \in FINANCIALLY_ACTIVE_STATUSES
            THEN Realized(estimatedProfit(inv.items), inv)
            ELSE [num |-> 0, den |-> 1]

\* C17: a Draft invoice adds nothing to revenue, realized profit, debt and
\* the count of active orders; a Pending invoice adds no revenue and no
\* profit and adds max(0, grandTotalUsd - amountPaid) to the debt; no
\* invoice adds a negative balance to the debt.
C17_DraftAndPendingTerms ==
  \A k \in 1..Len(getInvoices) :
    LET inv == getInvoices[k]
        term == DashboardTerm(inv)
        left == inv.grandTotalUsd - inv.amountPaid
    IN  /\ inv.status = DRAFT =>
             /\ term.revenue = 0 /\ term.netProfit.num = 0
             /\ term.pending = 0 /\ term.count = 0
        /\ inv.status = PENDING =>
             /\ term.revenue = 0 /\ term.netProfit.num = 0
             /\ term.pending = IF left > 0 THEN left ELSE 0
        /\ term.pending >= 0

\* a Pending invoice that owes its whole total, next to an overpaid one
C17_Witness ==
  /\ \E k \in 1..Len(getInvoices) :
       /\ getInvoices[k].status = PENDING
       /\ getInvoices[k].grandTotalUsd > 0
       /\ DashboardTerm(getInvoices[k]).pending = getInvoices[k].grandTotalUsd
  /\ \E k \in 1..Len(getInvoices) :
       getInvoices[k].amountPaid > getInvoices[k].grandTotalUsd
  /\ stats.pending > 0

----------------------------------------------------------------------------
(* The numeric helpers on every kind of value.  A JavaScript value is a     *)
(* record tagged by t: a finite number of mills v, NaN, Infinity,           *)
(* -Infinity, a string s (a sequence of characters), null or undefined.     *)

MaxText == 3       \* length of the texts handed to the numeric helpers

Num(v) == [t |-> "number", v |-> v]
NaN == [t |-> "NaN"]
Str(s) == [t |-> "string", s |-> s]

\* typeof val === 'number'
IsNumberType(val) == val.t \in {"number", "NaN", "Infinity", "-Infinity"}

\* Number.isFinite(val)
IsFinite(val) == val.t = "number"

\* the digits of the texts are 0, 1 and 5
DigitValue(c) == IF c = "1" THEN 1 ELSE IF c = "5" THEN 5 ELSE 0

InfinityText == <<"I", "n", "f", "i", "n", "i", "t", "y">>

\* str.replace(',', '.'): the first comma only
RECURSIVE ReplaceComma(_)
ReplaceComma(s) ==
  IF s = <<>> THEN <<>>
  ELSE IF Head(s) = "," THEN <<".">> \o Tail(s)
  ELSE <<Head(s)>> \o ReplaceComma(Tail(s))

\* parseFloat, step by step: leading white space, the sign, the digits
RECURSIVE TrimLeft(_)
TrimLeft(s) ==
  IF s # <<>> /\ Head(s) = " " THEN TrimLeft(Tail(s)) ELSE s

RECURSIVE DigitPrefix(_)
DigitPrefix(s) ==
  IF s # <<>> /\ Head(s) \in {"0", "1", "5"}
  THEN <<Head(s)>> \o DigitPrefix(Tail(s)) ELSE <<>>

RECURSIVE IntegerOf(_)
IntegerOf(ds) ==
  IF ds = <<>> THEN 0
  ELSE 10 * IntegerOf(SubSeq(ds, 1, Len(ds) - 1)) + DigitValue(ds[Len(ds)])

\* parseFloat(s) for a text with no exponent part
parseFloat(s) ==
  LET t1 == TrimLeft(s)
      negative == t1 # <<>> /\ Head(t1) = "-"
      body == IF t1 # <<>> /\ Head(t1) \in {"-", "+"} THEN Tail(t1) ELSE t1
      int == DigitPrefix(body)
      after == SubSeq(body, Len(int) + 1, Len(body))
      frac == IF after # <<>> /\ Head(after) = "."
              THEN DigitPrefix(Tail(after)) ELSE <<>>
      \* the mills of the fraction: its first three digits
      d(k) == IF k <= Len(frac) THEN DigitValue(frac[k]) ELSE 0
      mills == 1000 * IntegerOf(int) + 100 * d(1) + 10 * d(2) + d(3)
  IN  IF Len(body) >= Len(InfinityText)
         /\ SubSeq(body, 1, Len(InfinityText)) = InfinityText
      THEN [t |-> IF negative THEN "-Infinity" ELSE "Infinity"]
      ELSE IF int = <<>> /\ frac = <<>> THEN NaN
      ELSE Num(IF negative THEN -mills ELSE mills)

\* safeParseFloat (storage.ts) on any value
safeParseFloatAny(val) ==
  IF IsNumberType(val) THEN safeParseFloat(val)
  ELSE IF val.t \in {"undefined", "null"} THEN Num(0)
  ELSE IF val.s = <<>> THEN Num(0)
  ELSE LET num == parseFloat(ReplaceComma(val.s))
       IN  IF num = NaN THEN Num(0) ELSE num

\* safeNumber (web-hook, v4.3) on any value: NaN is falsy and not 0
safeNumberAny(val) ==
  IF IsNumberType(val) THEN safeNumber(val)
  ELSE IF val.t \in {"undefined", "null"} THEN Num(0)
  ELSE IF val.s = <<>> THEN Num(0)
  ELSE LET num == parseFloat(ReplaceComma(val.s))
       IN  IF num = NaN THEN Num(0) ELSE num

\* the texts of at most n characters
RECURSIVE TextsOf(_)
TextsOf(n) ==
  IF n = 0 THEN {<<>>}
  ELSE LET shorter == TextsOf(n - 1)
       IN  shorter \cup {<<c>> \o s : c \in {"1", "5", ".", ",", "-", " ", "a"},
                                     s \in shorter}

\* the values handed to the helpers
JsInputs ==
  {Num(v) : v \in {-1500, 0, 10, 15500}}
  \cup {NaN, [t |-> "Infinity"], [t |-> "-Infinity"], [t |-> "null"],
        [t |-> "undefined"]}
  \cup {Str(s) : s \in TextsOf(MaxText)}
  \cup {Str(<<"1", "5", ",", "5", "0">>), Str(<<"1", "5", ".", "5", "0">>),
        Str(InfinityText), Str(<<"-">> \o InfinityText)}

callSafeParseFloat ==
  /\ calc.phase = "input"
  /\ calc' = [phase |-> "done", fn |-> "safeParseFloat", val |-> calc.val,
              out |-> safeParseFloatAny(calc.val)]
  /\ last' = [Idle EXCEPT !.op = "safeParseFloat"]
  /\ log' = <<>>
  /\ UNCHANGED <<cacheVars, listeners, pushes, initFlight, remote, nextId,
                 now, form, sheet, hook>>

callSafeNumber ==
  /\ calc.phase = "input"
  /\ calc' = [phase |-> "done", fn |-> "safeNumber", val |-> calc.val,
              out |-> safeNumberAny(calc.val)]
  /\ last' = [Idle EXCEPT !.op = "safeNumber"]
  /\ log' = <<>>
  /\ UNCHANGED <<cacheVars, listeners, pushes, initFlight, remote, nextId,
                 now, form, sheet, hook>>

CoerceInit ==
  /\ CacheInit /\ remote = EmptySheets /\ sheet = [phase |-> "off"]
  /\ hook = [phase |-> "off"]
  /\ calc \in {[phase |-> "input", val |-> v] : v \in JsInputs}

CoerceNext == callSafeParseFloat \/ callSafeNumber

CoerceSpec == CoerceInit /\ [][CoerceNext]_vars

\* C18: whatever it is given, the numeric helper returns a finite number,
\* and returns 0 for null, undefined, the empty text and a text that does
\* not start with a number.
C18_CoercionTotal ==
  calc.phase = "done" =>
    /\ IsFinite(calc.out)
    /\ calc.val.t \in {"null", "undefined"} => calc.out = Num(0)
    /\ (calc.val.t = "string"
        /\ parseFloat(ReplaceComma(calc.val.s)) = NaN) => calc.out = Num(0)

----------------------------------------------------------------------------
(* Settings and validation *)

\* C19: after an init() whose response carries no settings, the settings of
\* the cache are exchangeRate 40.5 and pricePerKg 15.43, whatever
\* setExchangeRate and setPricePerKg did before.
C19_DefaultsAfterInit ==
  (last.op = "init" /\ last.id = "envelope") => settings = DEFAULT_SETTINGS

\* C20: handleSave with no client selected changes nothing in the cache,
\* calls no subscriber and sends no push.
C20_NoClientNoSave ==
  [][\A bad \in BadChoices :
       (form.clientId = "" /\ handleSave(bad)) =>
       /\ cacheVars' = cacheVars
       /\ nextId' = nextId
       /\ log' = <<>>
       /\ pushes' = pushes]_vars

\* a save was refused on a form that holds an item, the cache still empty
C20_Witness ==
  /\ last.op = "handleSave"
  /\ form.open /\ form.clientId = "" /\ form.items # <<>>
  /\ invoices = <<>> /\ pushes = <<>>

----------------------------------------------------------------------------
(* End-to-end scenario and the logistics cost *)

\* C21: with pricePerKg 15.00, the invoice of one item {quantity 2, weight
\* 1 kg, originalPrice 10, finalPrice 15, commission 1, not electronics}
\* gets logisticsCost 30.00; saveInvoice stores it with totalProductSale
\* 30.00, totalCommissions 2.00 and grandTotalUsd 62.00; a change of its
\* status to Paid then stores amountPaid 62.00 and its balance is 0.
C21_OneItemScenario ==
  LET inv == invoices[last.idx]
      scenario == /\ last.id = "i1" /\ last.idx > 0
                  /\ inv.items = <<ItemA>>
                  /\ "totalProductSale" \in DOMAIN inv
  IN  /\ (last.op = "saveInvoice" /\ scenario) =>
            /\ inv.logisticsCost = 30000
            /\ inv.totalProductSale = 30000
            /\ inv.totalCommissions = 2000
            /\ inv.grandTotalUsd = 62000
      /\ (last.op = "updateInvoiceStatus" /\ last.status = PAID /\ scenario) =>
            /\ inv.amountPaid = 62000
            /\ getInvoices[last.idx].grandTotalUsd
               - getInvoices[last.idx].amountPaid = 0
            /\ DashboardTerm(getInvoices[last.idx]).pending = 0

\* the invoice of the scenario was saved and then set to Paid
C21_Witness ==
  /\ last.op = "updateInvoiceStatus" /\ last.status = PAID /\ last.idx = 1
  /\ invoices[1].items = <<ItemA>>
  /\ "totalProductSale" \in DOMAIN invoices[1]
  /\ invoices[1].amountPaid = 62000

\* C22: the logistics cost the form shows for its items is
\* totalWeightKg * pricePerKg + electronicsTax rounded to the nearest cent
\* (a half away from zero), totalWeightKg the sum of weight * quantity with
\* pounds divided by 2.20462, electronicsTax the sum of (originalPrice -
\* taxes - discounts) * quantity * 0.20 over the electronics items only.
C22_LogisticsCost ==
  [][(/\ last'.op \in {"addItem", "updateItem", "removeItem"}
      /\ (form.isLoaded \/ form.invoiceId = "")) =>
       LET items == form'.items
           price == form.configPricePerKg
           kg == SumSeq([k \in 1..Len(items) |->
                   IF items[k].weightUnit = "kg"
                   THEN items[k].weight * items[k].quantity ELSE 0])
           lb == SumSeq([k \in 1..Len(items) |->
                   IF items[k].weightUnit = "lb"
                   THEN items[k].weight * items[k].quantity ELSE 0])
           \* five times the electronics tax
           tax5 == SumSeq([k \in 1..Len(items) |->
                     IF items[k].isElectronics
                     THEN (items[k].originalPrice - items[k].taxes
                           - items[k].discounts) * items[k].quantity
                     ELSE 0])
           \* the exact cost is whole + rest / (5 * LbDen) mills
           whole == price * kg + ((price * lb * LbNum) \div LbDen)
                    + (tax5 \div 5)
           rest == 5 * ((price * lb * LbNum) % LbDen) + LbDen * (tax5 % 5)
           cost == form'.logisticsCost
           \* 5 * LbDen times (cost - the exact cost)
           off == 5 * LbDen * (cost - whole) - rest
       IN  /\ cost % 10 = 0
           /\ \/ off > -25 * LbDen /\ off < 25 * LbDen
              \/ off = 25 * LbDen /\ cost > 0
              \/ off = -25 * LbDen /\ cost < 0
    ]_vars

\* one pound of an item at 15.43 per kg: 6.9989... shown as 7.00
C22_Witness ==
  /\ last.op = "updateItem"
  /\ Len(form.items) = 1
  /\ form.items[1].weightUnit = "lb" /\ form.items[1].weight = 1
  /\ form.logisticsCost = 7000

----------------------------------------------------------------------------
(* Requests in flight *)

\* C23: a client saved, or deleted, while an init() request is in flight is
\* still saved, or still deleted, in the cache once that init() completes
\* with the dataset of the remote service.
C23_MutationSurvivesInit ==
  [][(/\ last.op \in {"saveClient", "deleteClient"}
      /\ initFlight > 0
      /\ last'.op = "init" /\ last'.id = "data") =>
       IF last.op = "saveClient"
       THEN \E k \in 1..Len(clients') : clients'[k] = clients[last.idx]
       ELSE findIndex(clients', last.id) = 0
    ]_vars

\* one session whose subscribers never raise and whose pushes all succeed;
\* the remote service receives the pushes in flight in any order
PushNext ==
  \/ \E c \in ClientInputs : saveClient(c, 0)
  \/ deleteClient("c1", 0)
  \/ callSaveInvoice(SyncInvoice, 0)
  \/ callUpdateInvoiceStatus("i1", PAID, 0)
  \/ deleteInvoice("i1", 0)
  \/ \E r \in RateInputs : setExchangeRate(r, 0)
  \/ \E k \in 1..MaxInFlight : pushSettle(k, TRUE)

PushSpec == Init /\ [][PushNext]_vars

\* C24: with one session and no push failing, once every push in flight
\* has settled the dataset of the remote service is the local cache, in
\* whatever order the service received the pushes.
C24_SettledRemoteIsCache ==
  (pushes = <<>> /\ last.op = "pushSettle") =>
    \E t \in 0..now :
      remote = doPost(remote, PayloadOf(clients, invoices, expenses,
                                        settings, t))

----------------------------------------------------------------------------
(* The web-hook's script lock.  A request is served step by step: it asks   *)
(* for the lock, handles the four sheets one after the other and releases   *)
(* the lock in its finally block.  Versions 2.1 and 4.3 lock alike.         *)

\* the body of a POST request
PostBody(p) ==
  IF p = "post1"
  THEN PayloadOf(<<[id |-> "c1", name |-> "Maria", phone |-> "0414-0000000"]>>,
                 <<FinalInvoice(SyncInvoice, 1)>>,
                 <<[id |-> "e1", description |-> "envio", amount |-> 7500,
                    category |-> "Transporte", date |-> 1]>>,
                 [exchangeRate |-> 36000, pricePerKg |-> 15000], 1)
  ELSE PayloadOf(<<>>, <<>>, <<>>, DEFAULT_SETTINGS, 2)

\* the sheet a handler turns to after each sheet
SheetOrder ==
  [Clients |-> "Invoices", Invoices |-> "Expenses", Expenses |-> "Settings",
   Settings |-> "finally"]

\* doPost: lock.waitLock(45000) returns with the lock, or raises, before
\* the try block is entered, when the lock stayed taken for that long
waitLock(p) ==
  /\ hook.phase = "on"
  /\ hook.pc[p] = "start"
  /\ hook' = IF hook.lock = ""
             THEN [hook EXCEPT !.lock = p, !.pc[p] = "Clients"]
             ELSE [hook EXCEPT !.pc[p] = "failed"]
  /\ last' = [Idle EXCEPT !.op = "waitLock", !.id = p]
  /\ log' = <<>>
  /\ UNCHANGED <<cacheVars, listeners, pushes, initFlight, remote, nextId,
                 now, form, sheet, calc>>

\* doPost: the next writeSheetRows / writeSettingsSheet of the request
writeSheet(p) ==
  /\ hook.phase = "on"
  /\ hook.pc[p] \in DOMAIN SheetOrder
  /\ remote' = [remote EXCEPT
                  ![hook.pc[p]] = doPost(remote, PostBody(p))[hook.pc[p]]]
  /\ hook' = [hook EXCEPT
                !.pc[p] = SheetOrder[hook.pc[p]],
                !.stable = IF hook.pc[p] = "Settings"
                           THEN Append(@, remote') ELSE @]
  /\ last' = [Idle EXCEPT !.op = "writeSheet", !.id = p]
  /\ log' = <<>>
  /\ UNCHANGED <<cacheVars, listeners, pushes, initFlight, nextId, now, form,
                 sheet, calc>>

\* doGet: lock.tryLock(10000) returns true with the lock, or false when the
\* lock stayed taken for 10 s; its result is dropped and the handler goes on
tryLock ==
  /\ hook.phase = "on"
  /\ hook.pc["get"] = "start"
  /\ hook' = [hook EXCEPT !.lock = IF @ = "" THEN "get" ELSE @,
                          !.pc["get"] = "Clients"]
  /\ last' = [Idle EXCEPT !.op = "tryLock", !.id = "get"]
  /\ log' = <<>>
  /\ UNCHANGED <<cacheVars, listeners, pushes, initFlight, remote, nextId,
                 now, form, sheet, calc>>

\* doGet: the next readSheetRows / readSettingsSheet of the request
readSheet ==
  /\ hook.phase = "on"
  /\ hook.pc["get"] \in DOMAIN SheetOrder
  /\ hook' = [hook EXCEPT !.read[hook.pc["get"]] = remote[hook.pc["get"]],
                          !.pc["get"] = SheetOrder[hook.pc["get"]]]
  /\ last' = [Idle EXCEPT !.op = "readSheet", !.id = "get"]
  /\ log' = <<>>
  /\ UNCHANGED <<cacheVars, listeners, pushes, initFlight, remote, nextId,
                 now, form, sheet, calc>>

\* finally { lock.releaseLock() }: frees the lock if this request holds it
releaseLock(p) ==
  /\ hook.phase = "on"
  /\ hook.pc[p] = "finally"
  /\ hook' = [hook EXCEPT !.lock = IF @ = p THEN "" ELSE @,
                          !.pc[p] = "done"]
  /\ last' = [Idle EXCEPT !.op = "releaseLock", !.id = p]
  /\ log' = <<>>
  /\ UNCHANGED <<cacheVars, listeners, pushes, initFlight, remote, nextId,
                 now, form, sheet, calc>>

\* two POST requests and one GET request arrive at a spreadsheet at rest
LockInit ==
  /\ CacheInit
  /\ sheet = [phase |-> "off"] /\ calc = [phase |-> "off"]
  /\ hook = [phase |-> "on", lock |-> "",
             pc |-> [p \in {"post1", "post2", "get"} |-> "start"],
             read |-> EmptySheets, stable |-> <<remote>>]

LockNext ==
  \/ \E p \in {"post1", "post2"} : waitLock(p)
  \/ \E p \in {"post1", "post2"} : writeSheet(p)
  \/ tryLock
  \/ readSheet
  \/ \E p \in {"post1", "post2", "get"} : releaseLock(p)

LockSpec == LockInit /\ [][LockNext]_vars

\* C25: the handlers of the web-hook exclude one another: no GET reads
\* the sheets while a POST is part-way through rewriting them, the
\* response of a GET is the dataset as it stood before or after a POST and
\* never a mixture, and no two POSTs write the sheets at the same time.
C25_HandlersExclusive ==
  hook.phase = "on" =>
    /\ \A p \in {"post1", "post2"} :
         ~(/\ hook.pc["get"] \in DOMAIN SheetOrder
           /\ hook.pc[p] \in {"Invoices", "Expenses", "Settings"})
    /\ hook.pc["get"] \in {"finally", "done"} =>
         \E k \in 1..Len(hook.stable) :
           doGet(hook.read) = doGet(hook.stable[k])
    /\ ~(/\ hook.pc["post1"] \in DOMAIN SheetOrder
         /\ hook.pc["post2"] \in DOMAIN SheetOrder)

----------------------------------------------------------------------------
(* Invariants of the cache *)

\* C26: an init() whose response is well-formed JSON without the
\* collections (the error envelope of the web-hook) leaves the clients,
\* the invoices and the expenses of the cache as they were.
C26_EnvelopeKeepsCache ==
  [][(last'.op = "init" /\ last'.id = "envelope") =>
       /\ clients' = clients
       /\ invoices' = invoices
       /\ expenses' = expenses
    ]_vars

\* C27: in every cache reached through edits of the form followed by a
\* save, and through status changes, a Pending invoice has amountPaid 0 and
\* a Paid invoice has amountPaid of at least its grandTotalUsd.
C27_StatusAgreesWithAmount ==
  \A k \in 1..Len(invoices) :
    /\ invoices[k].status = PENDING => invoices[k].amountPaid = 0
    /\ invoices[k].status = PAID =>
         invoices[k].amountPaid >= invoices[k].grandTotalUsd

\* C28: from an empty cache, after any sequence of save*, delete*,
\* updateInvoiceStatus and init() the ids of the clients, of the invoices and
\* of the expenses are pairwise distinct within each collection.
C28_IdsDistinct ==
  /\ \A j, k \in 1..Len(clients) : clients[j].id = clients[k].id => j = k
  /\ \A j, k \in 1..Len(invoices) : invoices[j].id = invoices[k].id => j = k
  /\ \A j, k \in 1..Len(expenses) : expenses[j].id = expenses[k].id => j = k

\* two saves with an empty id, after an init() that loaded two invoices
C28_Witness ==
  /\ last.op = "saveClient" /\ last.id = ""
  /\ Len(clients) >= 2 /\ Len(invoices) >= 2
  /\ \E j, k \in 1..Len(clients) :
        j # k /\ clients[j].id = generateId(1) /\ clients[k].id = generateId(2)

----------------------------------------------------------------------------
(* The settings dialog *)

\* what handleSaveSetting passes on: any number that is not negative
DialogInputs == {0, 36000, 15000}

\* the dashboard's dialog saving either setting, the pull and the pushes
SettingsNext ==
  \/ \E r \in DialogInputs, bad \in BadChoices : setExchangeRate(r, bad)
  \/ \E p \in DialogInputs, bad \in BadChoices : setPricePerKg(p, bad)
  \/ \E c \in ClientInputs, bad \in BadChoices : saveClient(c, bad)
  \/ \E l \in Listeners : subscribe(l)
  \/ initStart
  \/ \E o \in InitOutcomes, bad \in BadChoices : initSettle(o, bad)
  \/ \E k \in 1..MaxInFlight, ok \in BOOLEAN : pushSettle(k, ok)

SettingsSpec == Init /\ [][SettingsNext]_vars

\* C29: after setExchangeRate(r) (setPricePerKg(p)) with a number the settings
\* dialog accepts, 0 included, getExchangeRate() returns r (getPricePerKg()
\* returns p), and goes on returning it until the next set or init().
C29_SettingsRoundTrip ==
  [][/\ \A r \in DialogInputs, bad \in BadChoices :
          setExchangeRate(r, bad) => getExchangeRate' = r
     /\ \A p \in DialogInputs, bad \in BadChoices :
          setPricePerKg(p, bad) => getPricePerKg' = p
     /\ last'.op \notin {"setExchangeRate", "setPricePerKg", "init"} =>
          /\ getExchangeRate' = getExchangeRate
          /\ getPricePerKg' = getPricePerKg]_vars

\* C30: saveInvoice stores the invoice with the createdAt its caller gave,
\* when the invoice is new as well as when it is already in the cache, and
\* sets only updatedAt to the time of the save.
C30_CreatedAtKept ==
  [][\A i \in InvoiceInputs, bad \in BadChoices :
       saveInvoice(i, bad) =>
         /\ invoices'[last'.idx].createdAt = i.createdAt
         /\ invoices'[last'.idx].updatedAt = now + 1]_vars

============================================================================
